---- MODULE Spec2Model ----
(***************************************************************************)
(* flowninjas-core: the workflow graph model, its validation, the step     *)
(* compiler, the artifact generator and the generation orchestrator, with  *)
(* the HTTP endpoints that drive them.                                      *)
(*                                                                         *)
(* Strings that the program only copies or compares are TLA+ strings.      *)
(* Text the program searches and slices (collaborator responses) is a      *)
(* sequence of characters, each a string.  File paths built by f-strings are*)
(* tuples of their segments: f"functions/{n}/main.py" is                   *)
(* <<"functions", n, "main.py">>.  Python's None is the string None for    *)
(* Optional[str] fields and NoneInt for Optional[int] fields.              *)
(***************************************************************************)
EXTENDS Integers, Sequences, FiniteSets, TLC

VARIABLES
    entry,              \* which entry point the caller uses
    raw_nodes,          \* the submitted nodes, before model validation
    raw_connections,    \* the submitted connections
    metadata,           \* the submitted workflow metadata
    ai_enhance,         \* WorkflowGenerationRequest.ai_enhance
    include_deployment, \* WorkflowGenerationRequest.include_deployment
    model_available,    \* AIService has a configured model (GEMINI_API_KEY set)
    pc,                 \* position of the request in its handler
    node_idx,           \* loop index of the per-node loops (0-based, as enumerate)
    validation_issues,  \* result of validate_workflow in the endpoint
    generated_files,    \* generate_workflow_code: generated_files
    deployment_configs, \* generate_workflow_code: deployment_configs
    ai_suggestions,     \* _generate_ai_suggestions: suggestions
    collab_log,         \* every call made to the collaborator, in order
    call_log,           \* direct calls of the service made so far, with what they returned
    outcome,            \* what the caller finally observes
    response,           \* extraction: the collaborator's response text
    language,           \* extraction: the expected hint
    extracted,          \* extraction: the result
    save_files,         \* save_workflow_files: files, the filename-to-content map, in order
    output_path,        \* save_workflow_files: output_path
    file_idx,           \* save_workflow_files: entries of files handled so far
    disk,               \* the file system: resolved path -> content written
    requests            \* the generate requests in flight together, each with its locals

vars == << entry, raw_nodes, raw_connections, metadata, ai_enhance, include_deployment,
           model_available, pc, node_idx, validation_issues, generated_files,
           deployment_configs, ai_suggestions, collab_log, call_log, outcome,
           response, language, extracted, save_files, output_path, file_idx, disk,
           requests >>

\* ---------------------------------------------------------------- bounds

\* Largest number of nodes in a submitted workflow.
MaxNodes == 3

\* Largest length of a collaborator response, in characters.
MaxRespLen == 8

\* ------------------------------------------------------------ graph model

None == "None"
NoneInt == -1

START == "start"
END == "end"
CLOUD_FUNCTION == "cloud_function"
CLOUD_RUN == "cloud_run"
PUBSUB_PUBLISH == "pubsub_publish"
PUBSUB_SUBSCRIBE == "pubsub_subscribe"
HTTP_REQUEST == "http_request"
CONDITION == "condition"
PARALLEL == "parallel"
DELAY == "delay"
ASSIGN == "assign"
CALL == "call"
SWITCH == "switch"
FOR_LOOP == "for_loop"
TRY_CATCH == "try_catch"

WorkflowNodeType ==
    { START, END, CLOUD_FUNCTION, CLOUD_RUN, PUBSUB_PUBLISH, PUBSUB_SUBSCRIBE,
      HTTP_REQUEST, CONDITION, PARALLEL, DELAY, ASSIGN, CALL, SWITCH,
      FOR_LOOP, TRY_CATCH }

\* Python truthiness of an Optional[str]: None and "" are falsy.
Truthy(s) == s # None /\ s # ""

\* None for an Optional[Dict[...]] field, and Python's `d or {}`.
NoneDict == [ none |-> TRUE ]

OrEmptyDict(d) == IF d = NoneDict THEN [ k \in {} |-> None ] ELSE d

\* WorkflowNodeConfig with every optional field at its default.
WorkflowNodeConfig ==
    [ function_name |-> None, service_name |-> None, topic_name |-> None,
      subscription_name |-> None, url |-> None, method |-> "GET",
      headers |-> NoneDict, body |-> NoneDict,
      condition |-> None, delay_seconds |-> NoneInt, ai_prompt |-> None ]

\* The node configurations a caller submits in this model: one or more per
\* node type the orchestrator treats differently.
NodeKinds ==
    { [type |-> START, config |-> WorkflowNodeConfig],
      [type |-> END, config |-> WorkflowNodeConfig],
      [type |-> END, config |-> [WorkflowNodeConfig EXCEPT !.ai_prompt = "hint"]],
      [type |-> CLOUD_FUNCTION,
       config |-> [WorkflowNodeConfig EXCEPT !.function_name = "process-data",
                                             !.ai_prompt = "hint"]],
      [type |-> CLOUD_FUNCTION, config |-> WorkflowNodeConfig],
      [type |-> CLOUD_RUN,
       config |-> [WorkflowNodeConfig EXCEPT !.service_name = "api",
                                             !.ai_prompt = "hint"]],
      [type |-> HTTP_REQUEST,
       config |-> [WorkflowNodeConfig EXCEPT !.url = "https://api.example.com/data"]],
      [type |-> DELAY,
       config |-> [WorkflowNodeConfig EXCEPT !.delay_seconds = 5]],
      [type |-> DELAY,
       config |-> [WorkflowNodeConfig EXCEPT !.delay_seconds = 5],
       position |-> [ x |-> 300, y |-> 100 ]] }

\* Display names (WorkflowNodeConfig.name), one per position of the
\* submitted list, and what name.lower().replace(' ', '_') makes of them.
DisplayName(i) ==
    CASE i = 1 -> "Node A" [] i = 2 -> "Node B" [] i = 3 -> "Node C"
      [] i = 4 -> "Node D" [] OTHER -> "Node E"

LowerUnderscore(name) ==
    CASE name = "Node A" -> "node_a" [] name = "Node B" -> "node_b"
      [] name = "Node C" -> "node_c" [] name = "Node D" -> "node_d"
      [] OTHER -> "node_e"

\* WorkflowNodePosition of a node the caller did not move.
Origin == [ x |-> 0, y |-> 0 ]

\* A WorkflowNode: id and display name are given by the place at which the
\* caller listed it, its position on the canvas by the kind when the kind
\* has one; inputs and outputs are left at their default, the empty list.
WorkflowNode(i, kind) ==
    [ id |-> i, type |-> kind.type, name |-> DisplayName(i),
      position |-> IF "position" \in DOMAIN kind THEN kind.position ELSE Origin,
      config |-> kind.config, inputs |-> << >>, outputs |-> << >> ]

\* WorkflowMetadata with every optional field at its default, and the
\* metadata a caller submits in this model.
WorkflowMetadata ==
    [ name |-> "my-workflow", description |-> None, project_id |-> None,
      region |-> "us-central1" ]

Metadatas ==
    { WorkflowMetadata,
      [ name |-> "ETL-Flow", description |-> "nightly load",
        project_id |-> "acme-data", region |-> "europe-west1" ] }

\* workflow.metadata.name.lower().replace('-', '_')
LowerHyphen(name) ==
    CASE name = "my-workflow" -> "my_workflow" [] OTHER -> "etl_flow"

\* A WorkflowConnection.
WorkflowConnection(s, t) == [ source_node_id |-> s, target_node_id |-> t ]

\* The node lists a caller may submit: up to MaxNodes nodes of any kinds.
NodeLists ==
    UNION { { [i \in 1..n |-> WorkflowNode(i, ks[i])] : ks \in [1..n -> NodeKinds] }
            : n \in 0..MaxNodes }

\* The connection lists a caller may submit for n nodes in this model: no
\* connection at all, or one from each node to the next in list order.
ConnectionLists(n) ==
    { << >>, [ i \in 1..(IF n < 2 THEN 0 ELSE n - 1) |-> WorkflowConnection(i, i + 1) ] }

\* ------------------------------------------------------ sequence helpers

Range(s) == { s[i] : i \in 1..Len(s) }

RECURSIVE Concat(_)
\* The concatenation of a sequence of sequences.
Concat(ss) == IF ss = << >> THEN << >> ELSE Head(ss) \o Concat(Tail(ss))

\* [x for x in s if x.type == t]
OfType(s, t) == SelectSeq(s, LAMBDA n : n.type = t)

\* dict.update: the entries of e replace or extend those of d.
Update(d, e) ==
    [ k \in DOMAIN d \cup DOMAIN e |-> IF k \in DOMAIN e THEN e[k] ELSE d[k] ]

EmptyDict == [ k \in {} |-> None ]

\* ------------------------------------------------------- model validation

\* validate_nodes without the check of the start nodes.
validate_nodes_no_start_check(v) ==
    IF Len(v) = 0 THEN "Workflow must have at least one node"
    ELSE IF Len(OfType(v, END)) < 1
         THEN "Workflow must have at least one end node"
    ELSE "ok"

\* Workflow.validate_nodes, the pydantic validator of Workflow.nodes: the
\* ValueError it raises, or "ok" when it returns v.
validate_nodes(v) ==
    IF Len(v) = 0 THEN "Workflow must have at least one node"
    ELSE IF Len(OfType(v, START)) # 1
         THEN "Workflow must have exactly one start node"
    ELSE IF Len(OfType(v, END)) < 1
         THEN "Workflow must have at least one end node"
    ELSE "ok"

\* ------------------------------------------------------------- validator

\* An issue string: the f-string template and the display name put in it.
Issue(text, name) == [ text |-> text, name |-> name ]

\* _validate_node_config without the branch of the Condition nodes.
_validate_node_config_no_condition(node) ==
    IF node.type = CLOUD_FUNCTION
    THEN IF ~Truthy(node.config.function_name)
         THEN << Issue("Cloud Function node '{name}' missing function_name", node.name) >>
         ELSE << >>
    ELSE IF node.type = CLOUD_RUN
    THEN IF ~Truthy(node.config.service_name)
         THEN << Issue("Cloud Run node '{name}' missing service_name", node.name) >>
         ELSE << >>
    ELSE IF node.type = PUBSUB_PUBLISH
    THEN IF ~Truthy(node.config.topic_name)
         THEN << Issue("Pub/Sub Publish node '{name}' missing topic_name", node.name) >>
         ELSE << >>
    ELSE IF node.type = PUBSUB_SUBSCRIBE
    THEN IF ~Truthy(node.config.subscription_name)
         THEN << Issue("Pub/Sub Subscribe node '{name}' missing subscription_name", node.name) >>
         ELSE << >>
    ELSE IF node.type = HTTP_REQUEST
    THEN IF ~Truthy(node.config.url)
         THEN << Issue("HTTP Request node '{name}' missing url", node.name) >>
         ELSE << >>
    ELSE << >>

\* WorkflowService._validate_node_config
_validate_node_config(node) ==
    IF node.type = CLOUD_FUNCTION
    THEN IF ~Truthy(node.config.function_name)
         THEN << Issue("Cloud Function node '{name}' missing function_name", node.name) >>
         ELSE << >>
    ELSE IF node.type = CLOUD_RUN
    THEN IF ~Truthy(node.config.service_name)
         THEN << Issue("Cloud Run node '{name}' missing service_name", node.name) >>
         ELSE << >>
    ELSE IF node.type = PUBSUB_PUBLISH
    THEN IF ~Truthy(node.config.topic_name)
         THEN << Issue("Pub/Sub Publish node '{name}' missing topic_name", node.name) >>
         ELSE << >>
    ELSE IF node.type = PUBSUB_SUBSCRIBE
    THEN IF ~Truthy(node.config.subscription_name)
         THEN << Issue("Pub/Sub Subscribe node '{name}' missing subscription_name", node.name) >>
         ELSE << >>
    ELSE IF node.type = HTTP_REQUEST
    THEN IF ~Truthy(node.config.url)
         THEN << Issue("HTTP Request node '{name}' missing url", node.name) >>
         ELSE << >>
    ELSE IF node.type = CONDITION
    THEN IF ~Truthy(node.config.condition)
         THEN << Issue("Condition node '{name}' missing condition", node.name) >>
         ELSE << >>
    ELSE << >>

\* validate_workflow with the orphan check applied to nodes of every type.
validate_workflow_orphans_any_type(nodes, connections) ==
    LET start_nodes == OfType(nodes, START)
        end_nodes == OfType(nodes, END)
        connection_sources == { connections[c].source_node_id : c \in 1..Len(connections) }
        connection_targets == { connections[c].target_node_id : c \in 1..Len(connections) }
        required ==
            (IF Len(start_nodes) # 1
             THEN << Issue("Workflow must have exactly one START node", None) >>
             ELSE << >>)
            \o (IF Len(end_nodes) = 0
                THEN << Issue("Workflow must have at least one END node", None) >>
                ELSE << >>)
        orphaned ==
            Concat([ i \in 1..Len(nodes) |->
                IF /\ nodes[i].id \notin connection_targets
                   /\ nodes[i].id \notin connection_sources
                THEN << Issue("Node '{name}' is not connected", nodes[i].name) >>
                ELSE << >> ])
        configs == Concat([ i \in 1..Len(nodes) |-> _validate_node_config(nodes[i]) ])
    IN  required \o orphaned \o configs

\* validate_workflow asking of every node that it be both a source and a
\* target of some connection.
validate_workflow_needs_source_and_target(nodes, connections) ==
    LET start_nodes == OfType(nodes, START)
        end_nodes == OfType(nodes, END)
        connection_sources == { connections[c].source_node_id : c \in 1..Len(connections) }
        connection_targets == { connections[c].target_node_id : c \in 1..Len(connections) }
        required ==
            (IF Len(start_nodes) # 1
             THEN << Issue("Workflow must have exactly one START node", None) >>
             ELSE << >>)
            \o (IF Len(end_nodes) = 0
                THEN << Issue("Workflow must have at least one END node", None) >>
                ELSE << >>)
        orphaned ==
            Concat([ i \in 1..Len(nodes) |->
                IF \/ nodes[i].id \notin connection_targets
                   \/ nodes[i].id \notin connection_sources
                THEN << Issue("Node '{name}' is not connected", nodes[i].name) >>
                ELSE << >> ])
        configs == Concat([ i \in 1..Len(nodes) |-> _validate_node_config(nodes[i]) ])
    IN  required \o orphaned \o configs

\* WorkflowService.validate_workflow: the issue list, in the order the code
\* appends to it.
validate_workflow(nodes, connections) ==
    LET start_nodes == OfType(nodes, START)
        end_nodes == OfType(nodes, END)
        connection_sources == { connections[c].source_node_id : c \in 1..Len(connections) }
        connection_targets == { connections[c].target_node_id : c \in 1..Len(connections) }
        required ==
            (IF Len(start_nodes) # 1
             THEN << Issue("Workflow must have exactly one START node", None) >>
             ELSE << >>)
            \o (IF Len(end_nodes) = 0
                THEN << Issue("Workflow must have at least one END node", None) >>
                ELSE << >>)
        orphaned ==
            Concat([ i \in 1..Len(nodes) |->
                IF /\ nodes[i].type \notin { START, END }
                   /\ nodes[i].id \notin connection_targets
                   /\ nodes[i].id \notin connection_sources
                THEN << Issue("Node '{name}' is not connected", nodes[i].name) >>
                ELSE << >> ])
        configs == Concat([ i \in 1..Len(nodes) |-> _validate_node_config(nodes[i]) ])
    IN  required \o orphaned \o configs

\* ---------------------------------------------------------- step compiler

\* Settings.GOOGLE_CLOUD_PROJECT, unset by default.
GOOGLE_CLOUD_PROJECT == None

\* _node_to_workflow_step lowering a Cloud Run node like a Cloud Function
\* node instead of leaving it to the fallback.
_node_to_workflow_step_cloud_run_call(node) ==
    IF node.type \in { CLOUD_FUNCTION, CLOUD_RUN }
    THEN [ call |-> "googleapis.cloudfunctions.v1.projects.locations.functions.call",
           args |-> [ name |-> << "projects", GOOGLE_CLOUD_PROJECT, "locations",
                                  node.config.function_name >>,
                      data |-> "${input}" ],
           result |-> "function_result" ]
    ELSE IF node.type = HTTP_REQUEST
    THEN [ call |-> "http.request",
           args |-> [ url |-> node.config.url,
                      method |-> IF Truthy(node.config.method)
                                 THEN node.config.method ELSE "GET",
                      headers |-> OrEmptyDict(node.config.headers),
                      body |-> OrEmptyDict(node.config.body) ],
           result |-> "http_result" ]
    ELSE IF node.type = CONDITION
    THEN [ switch |-> << [ condition |-> node.config.condition, next |-> "continue" ] >>,
           next |-> "end" ]
    ELSE IF node.type = DELAY
    THEN [ call |-> "sys.sleep",
           args |-> [ seconds |-> IF node.config.delay_seconds \notin { NoneInt, 0 }
                                  THEN node.config.delay_seconds ELSE 1 ] ]
    ELSE [ assign |-> << [ result |-> << "Processed", node.name >> ] >> ]

\* WorkflowService._node_to_workflow_step
_node_to_workflow_step(node) ==
    IF node.type = CLOUD_FUNCTION
    THEN [ call |-> "googleapis.cloudfunctions.v1.projects.locations.functions.call",
           args |-> [ name |-> << "projects", GOOGLE_CLOUD_PROJECT, "locations",
                                  node.config.function_name >>,
                      data |-> "${input}" ],
           result |-> "function_result" ]
    ELSE IF node.type = HTTP_REQUEST
    THEN [ call |-> "http.request",
           args |-> [ url |-> node.config.url,
                      method |-> IF Truthy(node.config.method)
                                 THEN node.config.method ELSE "GET",
                      headers |-> OrEmptyDict(node.config.headers),
                      body |-> OrEmptyDict(node.config.body) ],
           result |-> "http_result" ]
    ELSE IF node.type = CONDITION
    THEN [ switch |-> << [ condition |-> node.config.condition, next |-> "continue" ] >>,
           next |-> "end" ]
    ELSE IF node.type = DELAY
    THEN [ call |-> "sys.sleep",
           args |-> [ seconds |-> IF node.config.delay_seconds \notin { NoneInt, 0 }
                                  THEN node.config.delay_seconds ELSE 1 ] ]
    ELSE [ assign |-> << [ result |-> << "Processed", node.name >> ] >> ]

\* An f-string key such as f"step_{i}".
StepKey(prefix, i) == [ prefix |-> prefix, index |-> i ]

\* StepEntries numbering the nodes from 1, as enumerate(nodes, 1) would.
StepEntries_from_one(node, i) ==
    IF node.type = START THEN << >>
    ELSE IF node.type = END
    THEN << [ key |-> StepKey("end_step_", i + 1),
              node |-> node.id,
              step |-> [ return |-> "${result}" ] ] >>
    ELSE << [ key |-> StepKey("step_", i + 1),
              node |-> node.id,
              step |-> _node_to_workflow_step(node) ] >>

\* StepEntries without the `continue` for START nodes.
StepEntries_with_start(node, i) ==
    IF node.type = END
    THEN << [ key |-> StepKey("end_step_", i),
              node |-> node.id,
              step |-> [ return |-> "${result}" ] ] >>
    ELSE << [ key |-> StepKey("step_", i),
              node |-> node.id,
              step |-> _node_to_workflow_step(node) ] >>

\* The loop body numbering a step by where its node lies on the canvas.
StepEntries_by_position(node, i) ==
    IF node.type = START THEN << >>
    ELSE IF node.type = END
    THEN << [ key |-> StepKey("end_step_", i),
              node |-> node.id,
              step |-> [ return |-> "${result}" ] ] >>
    ELSE << [ key |-> StepKey("step_", node.position.x),
              node |-> node.id,
              step |-> _node_to_workflow_step(node) ] >>

\* The single-key dict appended for the node at 0-based position i, or no
\* entry for a START node.
StepEntries(node, i) ==
    IF node.type = START THEN << >>
    ELSE IF node.type = END
    THEN << [ key |-> StepKey("end_step_", i),
              node |-> node.id,
              step |-> [ return |-> "${result}" ] ] >>
    ELSE << [ key |-> StepKey("step_", i),
              node |-> node.id,
              step |-> _node_to_workflow_step(node) ] >>

\* _generate_basic_workflow_yaml numbering its steps from a counter that
\* outlives the call.
_generate_basic_workflow_yaml_counting(nodes) ==
    [ main |-> [ steps |->
        Concat([ p \in 1..Len(nodes) |->
                   StepEntries(nodes[p], p - 1 + Len(call_log)) ]) ] ]

\* WorkflowService._generate_basic_workflow_yaml: the document handed to
\* yaml.dump(sort_keys=False), which writes keys and list items in
\* insertion order.  `node` records which node an entry was emitted for and
\* is not part of the written text.
_generate_basic_workflow_yaml(nodes) ==
    [ main |-> [ steps |->
        Concat([ p \in 1..Len(nodes) |-> StepEntries(nodes[p], p - 1) ]) ] ]

\* ------------------------------------------------- fenced-block extraction

\* The characters Python's str.strip() removes that occur in this model.
Whitespace == { " ", "\n" }

\* The backtick character (a TLA+ string cannot hold one).
Backtick == "BACKTICK"

Fence == << Backtick, Backtick, Backtick >>

\* str.find(sub, start): the lowest 0-based index >= start at which sub
\* occurs, or -1.
Find(s, sub, start) ==
    LET at == { i \in start..(Len(s) - Len(sub)) :
                    SubSeq(s, i + 1, i + Len(sub)) = sub }
    IN  IF at = {} THEN -1 ELSE CHOOSE i \in at : \A j \in at : i <= j

\* sub in s
Contains(s, sub) == Find(s, sub, 0) # -1

\* s[a:b] for a >= 0 and any b: a negative b counts from the end.
Slice(s, a, b) ==
    LET hi == IF b < 0 THEN (IF Len(s) + b < 0 THEN 0 ELSE Len(s) + b)
              ELSE (IF b > Len(s) THEN Len(s) ELSE b)
    IN  SubSeq(s, a + 1, hi)

RECURSIVE LStrip(_)
LStrip(s) == IF s # << >> /\ Head(s) \in Whitespace THEN LStrip(Tail(s)) ELSE s

RECURSIVE RStrip(_)
RStrip(s) ==
    IF s # << >> /\ s[Len(s)] \in Whitespace
    THEN RStrip(SubSeq(s, 1, Len(s) - 1)) ELSE s

\* str.strip()
Strip(s) == RStrip(LStrip(s))

\* AIService._extract_code_from_response
_extract_code_from_response(resp, lang) ==
    LET code_block == Fence \o lang
    IN  IF Contains(resp, code_block)
        THEN LET start == Find(resp, code_block, 0) + Len(code_block)
                 end == Find(resp, Fence, start)
             IN  Strip(Slice(resp, start, end))
        ELSE IF Contains(resp, Fence)
        THEN LET start == Find(resp, Fence, 0) + 3
                 end == Find(resp, Fence, start)
             IN  Strip(Slice(resp, start, end))
        ELSE Strip(resp)

\* _extract_yaml_from_response skipping one character less than its marker
\* is long.
_extract_yaml_from_response_short_skip(resp) ==
    LET yaml_block == Fence \o << "y", "a", "m", "l" >>
    IN  IF Contains(resp, yaml_block)
        THEN LET start == Find(resp, yaml_block, 0) + 6
                 end == Find(resp, Fence, start)
             IN  Strip(Slice(resp, start, end))
        ELSE IF Contains(resp, Fence)
        THEN LET start == Find(resp, Fence, 0) + 3
                 end == Find(resp, Fence, start)
             IN  Strip(Slice(resp, start, end))
        ELSE Strip(resp)

\* AIService._extract_yaml_from_response
_extract_yaml_from_response(resp) ==
    LET yaml_block == Fence \o << "y", "a", "m", "l" >>
    IN  IF Contains(resp, yaml_block)
        THEN LET start == Find(resp, yaml_block, 0) + 7
                 end == Find(resp, Fence, start)
             IN  Strip(Slice(resp, start, end))
        ELSE IF Contains(resp, Fence)
        THEN LET start == Find(resp, Fence, 0) + 3
                 end == Find(resp, Fence, start)
             IN  Strip(Slice(resp, start, end))
        ELSE Strip(resp)

\* The characters of the responses the extraction is run on, and the
\* expected hints: "p" is a language name, "x" is any other text.
Chars == { Backtick, "p", "x", " " }

Languages == { << "p" >> }

RECURSIVE StringsUpTo(_)
\* Every string over Chars of length at most n.
StringsUpTo(n) ==
    IF n = 0 THEN { << >> }
    ELSE LET shorter == StringsUpTo(n - 1)
         IN  shorter \cup { Append(t, c) : t \in { u \in shorter : Len(u) = n - 1 },
                                           c \in Chars }

\* A value for the variables an operation does not use.
Idle == "idle"

\* Optional[str] output_path left out.
NonePath == [ none |-> TRUE ]

\* What saving and concurrent generation work on, and its value while
\* neither takes place.
save_vars == << save_files, output_path, file_idx, disk >>

SaveIdle ==
    /\ save_files = << >>
    /\ output_path = NonePath
    /\ file_idx = 0
    /\ disk = EmptyDict

NoRequests == requests = << >>

RequestIdle ==
    /\ entry = Idle
    /\ raw_nodes = << >>
    /\ raw_connections = << >>
    /\ metadata = WorkflowMetadata
    /\ ai_enhance = FALSE
    /\ include_deployment = FALSE
    /\ model_available = FALSE
    /\ node_idx = 0
    /\ validation_issues = << >>
    /\ generated_files = EmptyDict
    /\ deployment_configs = EmptyDict
    /\ ai_suggestions = << >>
    /\ collab_log = << >>
    /\ call_log = << >>
    /\ SaveIdle
    /\ NoRequests
    /\ outcome = [ status |-> Idle ]

request_vars ==
    << entry, raw_nodes, raw_connections, metadata, ai_enhance, include_deployment,
       model_available, node_idx, validation_issues, generated_files,
       deployment_configs, ai_suggestions, collab_log, call_log, outcome,
       save_vars, requests >>

\* A collaborator response arrives and is about to be extracted.
InitExtract ==
    /\ RequestIdle
    /\ pc = "extract"
    /\ response \in StringsUpTo(MaxRespLen)
    /\ language \in Languages
    /\ extracted = << >>

\* generate_cloud_function_code / generate_cloud_run_dockerfile, after the
\* collaborator answered: code = _extract_code_from_response(response, hint).
ExtractCode ==
    /\ pc = "extract"
    /\ extracted' = _extract_code_from_response(response, language)
    /\ pc' = "extracted"
    /\ UNCHANGED << request_vars, response, language >>

NextExtract == ExtractCode

SpecExtract == InitExtract /\ [][NextExtract]_vars

\* ------------------------------------ extraction of the workflow document

\* Largest number of pieces a whole-workflow response is made of.
MaxPieces == 4

\* The hint of the per-node extraction that corresponds to the workflow
\* document.
YamlHint == << "y", "a", "m", "l" >>

\* The pieces of the responses: a fence, the word yaml, a prefix of it, a
\* lone backtick, other text, a blank.
Pieces == { Fence, YamlHint, << "y", "a" >>, << Backtick >>, << "x" >>, << " " >> }

RECURSIVE PiecedStrings(_)
\* Every concatenation of at most n pieces.
PiecedStrings(n) ==
    IF n = 0 THEN { << >> }
    ELSE LET shorter == PiecedStrings(n - 1)
         IN  shorter \cup { t \o piece : t \in shorter, piece \in Pieces }

\* The collaborator answered the whole-workflow prompt, or a per-node
\* prompt whose expected hint is yaml.
InitExtractYaml ==
    /\ RequestIdle
    /\ pc \in { "extract_yaml", "extract" }
    /\ response \in PiecedStrings(MaxPieces)
    /\ language = YamlHint
    /\ extracted = << >>

\* generate_workflow_yaml, after the collaborator answered:
\* yaml_content = self._extract_yaml_from_response(response).
ExtractYaml ==
    /\ pc = "extract_yaml"
    /\ extracted' = _extract_yaml_from_response(response)
    /\ pc' = "yaml_extracted"
    /\ UNCHANGED << request_vars, response, language >>

NextExtractYaml == ExtractYaml \/ ExtractCode

SpecExtractYaml == InitExtractYaml /\ [][NextExtractYaml]_vars

\* ---- C5 ----

\* A fenced block opened by `open` exists in resp: the first occurrence of
\* `open` is followed by a closing fence.
BlockExists(resp, open) ==
    /\ Contains(resp, open)
    /\ Find(resp, Fence, Find(resp, open, 0) + Len(open)) # -1

\* The text between the first `open` and the closing fence that follows it.
BlockInterior(resp, open) ==
    LET start == Find(resp, open, 0) + Len(open)
    IN  SubSeq(resp, start + 1, Find(resp, Fence, start))

\* The fallback chain as the claim states it.
FallbackChain(resp, lang) ==
    IF BlockExists(resp, Fence \o lang)
    THEN Strip(BlockInterior(resp, Fence \o lang))
    ELSE IF BlockExists(resp, Fence)
    THEN Strip(BlockInterior(resp, Fence))
    ELSE Strip(resp)

\* C5: for every response and expected hint the extraction returns the
\* tagged block's interior trimmed if such a block exists, else the first
\* fenced block's interior if any fenced block exists, else the whole
\* response trimmed.
C5_ExtractionFollowsFallbackChain ==
    pc = "extracted" => extracted = FallbackChain(response, language)

\* ------------------------------------------------------------ collaborator

\* What a call of model.generate_content can do: raise, or answer with a
\* text (response.text).  Two texts stand for the answers: one wrapped in
\* an untagged fenced block and one bare.
CollaboratorReplies ==
    { [ ok |-> FALSE, text |-> << >> ],
      [ ok |-> TRUE, text |-> Fence \o << "x", " " >> \o Fence ],
      [ ok |-> TRUE, text |-> << " ", "x", "x" >> ] }

\* AIService._generate_content: RuntimeError when no model was configured,
\* else the collaborator's reply (its exception is re-raised).
_generate_content(available, reply) ==
    IF ~available THEN [ ok |-> FALSE, text |-> << >> ] ELSE reply

\* One entry of collab_log: the AIService operation called, the node it
\* was called for (0 for the whole workflow), whether the call got as far
\* as model.generate_content, and whether it returned a text.
CollabCall(op, node_id, available, reply) ==
    [ op |-> op, node |-> node_id, reached |-> available,
      ok |-> _generate_content(available, reply).ok ]

\* The content of a generated file: who produced it, for which node, and
\* its text (for a template, the values put in the f-string).
FileContent(origin, producer, node_id, text) ==
    [ origin |-> origin, producer |-> producer, node |-> node_id, text |-> text ]

\* The result of an operation that may raise: `calls` are the collaborator
\* calls it made.
Raised(calls) == [ raised |-> TRUE, value |-> None, calls |-> calls ]
Returned(value, calls) == [ raised |-> FALSE, value |-> value, calls |-> calls ]

\* AIService.generate_workflow_yaml, given what the collaborator does.
generate_workflow_yaml(available, reply) ==
    LET r == _generate_content(available, reply)
        calls == << CollabCall("generate_workflow_yaml", 0, available, reply) >>
    IN  IF r.ok
        THEN Returned(FileContent("collaborator", "generate_workflow_yaml", 0,
                                  _extract_yaml_from_response(r.text)), calls)
        ELSE Raised(calls)

\* AIService.generate_cloud_function_code, given what the collaborator does.
generate_cloud_function_code(node, available, reply) ==
    LET r == _generate_content(available, reply)
        calls == << CollabCall("generate_cloud_function_code", node.id,
                               available, reply) >>
    IN  IF node.type # CLOUD_FUNCTION THEN Raised(<< >>)
        ELSE IF r.ok
        THEN Returned(FileContent("collaborator", "generate_cloud_function_code",
                          node.id,
                          _extract_code_from_response(r.text,
                              << "p", "y", "t", "h", "o", "n" >>)), calls)
        ELSE Raised(calls)

\* AIService.generate_cloud_run_dockerfile, given what the collaborator does.
generate_cloud_run_dockerfile(node, available, reply) ==
    LET r == _generate_content(available, reply)
        calls == << CollabCall("generate_cloud_run_dockerfile", node.id,
                               available, reply) >>
    IN  IF node.type # CLOUD_RUN THEN Raised(<< >>)
        ELSE IF r.ok
        THEN Returned(FileContent("collaborator", "generate_cloud_run_dockerfile",
                          node.id,
                          _extract_code_from_response(r.text,
                              << "d", "o", "c", "k", "e", "r", "f", "i", "l", "e" >>)),
                      calls)
        ELSE Raised(calls)

\* ------------------------------------------------------ artifact generator

\* The function name falling back on the display name as it is written.
FunctionName_display_name(node) ==
    IF Truthy(node.config.function_name) THEN node.config.function_name
    ELSE node.name

\* node.config.function_name or node.config.name.lower().replace(' ', '_')
FunctionName(node) ==
    IF Truthy(node.config.function_name) THEN node.config.function_name
    ELSE LowerUnderscore(node.name)

\* node.config.service_name or node.config.name.lower().replace(' ', '_')
ServiceName(node) ==
    IF Truthy(node.config.service_name) THEN node.config.service_name
    ELSE LowerUnderscore(node.name)

\* WorkflowService._generate_basic_function_code
_generate_basic_function_code(node) ==
    FileContent("template", "_generate_basic_function_code", node.id,
                << node.name, FunctionName(node) >>)

\* WorkflowService._generate_basic_service_code
_generate_basic_service_code(node) ==
    FileContent("template", "_generate_basic_service_code", node.id,
                << node.name, ServiceName(node) >>)

\* WorkflowService._generate_basic_dockerfile
_generate_basic_dockerfile(node) ==
    FileContent("template", "_generate_basic_dockerfile", node.id, << >>)

\* WorkflowService._generate_function_requirements
_generate_function_requirements ==
    FileContent("template", "_generate_function_requirements", 0, << >>)

\* WorkflowService._generate_service_requirements
_generate_service_requirements ==
    FileContent("template", "_generate_service_requirements", 0, << >>)

\* The files dict of a Cloud Function node.
FunctionFiles(node, main_py) ==
    [ k \in { << "functions", FunctionName(node), "main.py" >>,
              << "functions", FunctionName(node), "requirements.txt" >> } |->
        IF k[3] = "main.py" THEN main_py ELSE _generate_function_requirements ]

\* The files dict of a Cloud Run node.
ServiceFiles(node, dockerfile) ==
    [ k \in { << "services", ServiceName(node), "Dockerfile" >>,
              << "services", ServiceName(node), "main.py" >>,
              << "services", ServiceName(node), "requirements.txt" >> } |->
        IF k[3] = "Dockerfile" THEN dockerfile
        ELSE IF k[3] = "main.py" THEN _generate_basic_service_code(node)
        ELSE _generate_service_requirements ]

\* _generate_function_files that asks the collaborator whatever the flag.
_generate_function_files_always_ai(node, enhance, available, reply) ==
    LET main_py == generate_cloud_function_code(node, available, reply)
    IN  IF main_py.raised THEN Raised(main_py.calls)
        ELSE Returned(FunctionFiles(node, main_py.value), main_py.calls)

\* _generate_function_files that falls back to the template when the
\* collaborator call fails.
_generate_function_files_fallback(node, enhance, available, reply) ==
    LET main_py == IF enhance
                   THEN generate_cloud_function_code(node, available, reply)
                   ELSE Returned(_generate_basic_function_code(node), << >>)
    IN  IF main_py.raised
        THEN Returned(FunctionFiles(node, _generate_basic_function_code(node)),
                      main_py.calls)
        ELSE Returned(FunctionFiles(node, main_py.value), main_py.calls)

\* WorkflowService._generate_function_files: the files dict it returns, or
\* the exception of the collaborator call passing through it.
_generate_function_files(node, enhance, available, reply) ==
    LET main_py == IF enhance
                   THEN generate_cloud_function_code(node, available, reply)
                   ELSE Returned(_generate_basic_function_code(node), << >>)
    IN  IF main_py.raised THEN Raised(main_py.calls)
        ELSE Returned(FunctionFiles(node, main_py.value), main_py.calls)

\* WorkflowService._generate_service_files
_generate_service_files(node, enhance, available, reply) ==
    LET dockerfile == IF enhance
                      THEN generate_cloud_run_dockerfile(node, available, reply)
                      ELSE Returned(_generate_basic_dockerfile(node), << >>)
    IN  IF dockerfile.raised THEN Raised(dockerfile.calls)
        ELSE Returned(ServiceFiles(node, dockerfile.value), dockerfile.calls)

\* Python's `x or default` for an Optional[str].
OrDefault(x, default) == IF Truthy(x) THEN x ELSE default

\* WorkflowService._generate_cloudbuild_config: the template and the values
\* the f-string puts into it, in order.
_generate_cloudbuild_config(md) ==
    FileContent("template", "_generate_cloudbuild_config", 0,
                << md.region, md.region, md.name, md.region >>)

\* WorkflowService._generate_terraform_config
_generate_terraform_config(md) ==
    FileContent("template", "_generate_terraform_config", 0,
                << md.region, LowerHyphen(md.name), md.name, md.region,
                   OrDefault(md.description, "Generated workflow") >>)

\* WorkflowService._generate_deployment_script
_generate_deployment_script(md) ==
    FileContent("template", "_generate_deployment_script", 0,
                << md.name, OrDefault(md.project_id, "your-project-id"),
                   md.region, md.name, md.name >>)

\* _generate_deployment_configs writing other descriptors for an enriched
\* request.
_generate_deployment_configs_by_mode(md) ==
    [ k \in { << "cloudbuild.yaml" >>, << "terraform", "main.tf" >>,
              << "deploy.sh" >> } |->
        IF ai_enhance
        THEN FileContent("collaborator", "_generate_deployment_configs", 0, << >>)
        ELSE IF k = << "cloudbuild.yaml" >> THEN _generate_cloudbuild_config(md)
        ELSE IF k = << "deploy.sh" >> THEN _generate_deployment_script(md)
        ELSE _generate_terraform_config(md) ]

\* WorkflowService._generate_deployment_configs
_generate_deployment_configs(md) ==
    [ k \in { << "cloudbuild.yaml" >>, << "terraform", "main.tf" >>,
              << "deploy.sh" >> } |->
        IF k = << "cloudbuild.yaml" >> THEN _generate_cloudbuild_config(md)
        ELSE IF k = << "deploy.sh" >> THEN _generate_deployment_script(md)
        ELSE _generate_terraform_config(md) ]

\* ------------------------------------------------------------- suggestions

\* One suggestion string: its text and, for a collaborator suggestion, the
\* node it was produced for (0 for a general suggestion).
Suggestion(text, node_id) == [ text |-> text, node |-> node_id ]

\* The dict enhance_node_configuration returns, as far as the caller reads
\* it: it has a "suggestions" list or it has none (any other keys, or the
\* {"raw_response": ...} of _extract_json_from_response).
EnhancedConfig(node, with_suggestions) ==
    IF with_suggestions
    THEN [ k \in { "suggestions" } |->
             << Suggestion("suggestion 1", node.id),
                Suggestion("suggestion 2", node.id),
                Suggestion("suggestion 3", node.id) >> ]
    ELSE [ k \in { "raw_response" } |-> << >> ]

\* What the collaborator does on an enhancement prompt: raise, answer with
\* a suggestions list, answer without one.
EnhanceReplies ==
    { [ ok |-> FALSE, with_suggestions |-> FALSE ],
      [ ok |-> TRUE, with_suggestions |-> TRUE ],
      [ ok |-> TRUE, with_suggestions |-> FALSE ] }

\* AIService.enhance_node_configuration, given what the collaborator does.
enhance_node_configuration(node, available, reply) ==
    LET r == _generate_content(available, [ ok |-> reply.ok, text |-> << >> ])
        calls == << [ op |-> "enhance_node_configuration", node |-> node.id,
                      reached |-> available, ok |-> r.ok ] >>
    IN  IF r.ok THEN Returned(EnhancedConfig(node, reply.with_suggestions), calls)
        ELSE Raised(calls)

\* The general suggestions _generate_ai_suggestions appends.
GeneralSuggestions ==
    << Suggestion("Consider adding error handling and retry logic", 0),
       Suggestion("Implement proper logging and monitoring", 0),
       Suggestion("Add input validation for all endpoints", 0),
       Suggestion("Consider using Cloud Monitoring for observability", 0),
       Suggestion("Implement proper authentication and authorization", 0) >>

\* suggestions[:10]
SuggestionLimit == 10

\* suggestions, not truncated.
Top_unlimited(suggestions) == suggestions

Top(suggestions) ==
    SubSeq(suggestions, 1,
           IF Len(suggestions) < SuggestionLimit THEN Len(suggestions)
           ELSE SuggestionLimit)

\* _generate_ai_suggestions, one iteration of `for node in workflow.nodes`:
\* the suggestions after it, or the exception that leaves the loop.
SuggestForNode(suggestions, node, available, reply) ==
    IF Truthy(node.config.ai_prompt)
    THEN LET enhanced_config == enhance_node_configuration(node, available, reply)
         IN  IF enhanced_config.raised THEN Raised(enhanced_config.calls)
             ELSE Returned(
                    IF "suggestions" \in DOMAIN enhanced_config.value
                    THEN suggestions \o enhanced_config.value["suggestions"]
                    ELSE suggestions,
                    enhanced_config.calls)
    ELSE Returned(suggestions, << >>)

\* _generate_ai_suggestions re-raising what its loop raised.
SuggestExcept_reraise(suggestions) == Raised(<< >>)

\* _generate_ai_suggestions, `except Exception`: the warning is logged and
\* the function returns what it has.
SuggestExcept(suggestions) == Returned(Top(suggestions), << >>)

\* _generate_ai_suggestions after the loop: the general suggestions are
\* appended and the first ten returned.
SuggestTail(suggestions) == Top(suggestions \o GeneralSuggestions)

\* ------------------------------------------------------- request handling

\* POST /workflows/generate, POST /workflows/validate, and a direct call of
\* WorkflowService.generate_workflow_code on a constructed request.
Entries == { "generate", "validate", "service" }

\* What the caller observes.
NoResult ==
    [ generated_files |-> EmptyDict, deployment_configs |-> EmptyDict,
      ai_suggestions |-> << >> ]

Failure(status, error, issues) ==
    [ status |-> status, error |-> error, issues |-> issues,
      has_result |-> FALSE, result |-> NoResult ]

Success(status, issues, has_result, result) ==
    [ status |-> status, error |-> None, issues |-> issues,
      has_result |-> has_result, result |-> result ]

\* Constructing the Workflow model from the submitted data: FastAPI answers
\* 422 when a validator raises; a direct constructor call raises
\* ValidationError.
ParseFailure(e, error) ==
    IF e = "service" THEN Failure("ValidationError", error, << >>)
    ELSE Failure("422", error, << >>)

\* generate_workflow_code re-raises; the endpoint's `except Exception`
\* turns any exception into HTTPException(500, detail=str(e)).
GenerationFailure(e) ==
    IF e = "service" THEN Failure("raised", "Exception", << >>)
    ELSE Failure("500", "Exception", << >>)

\* POST /generate with validation issues: HTTPException(400) is raised
\* inside the try block, whose `except Exception` catches it and raises
\* HTTPException(500, detail=str(e)); the issues survive only inside that
\* string.
ValidationFailure(issues) ==
    Failure("500", "400: Workflow validation failed", << >>)

\* A request arrives.  What a path never reads is not varied on it: the
\* connections for a direct call of generate_workflow_code, the flags for
\* POST /validate, the collaborator's availability without ai_enhance, the
\* metadata without include_deployment.
Init ==
    /\ entry \in Entries
    /\ raw_nodes \in NodeLists
    /\ raw_connections \in (IF entry = "service" THEN { << >> }
                            ELSE ConnectionLists(Len(raw_nodes)))
    /\ ai_enhance \in (IF entry = "validate" THEN { FALSE } ELSE BOOLEAN)
    /\ include_deployment \in (IF entry = "validate" THEN { FALSE } ELSE BOOLEAN)
    /\ metadata \in (IF include_deployment THEN Metadatas ELSE { WorkflowMetadata })
    /\ model_available \in (IF ai_enhance THEN BOOLEAN ELSE { FALSE })
    /\ pc = "request"
    /\ node_idx = 0
    /\ validation_issues = << >>
    /\ generated_files = EmptyDict
    /\ deployment_configs = EmptyDict
    /\ ai_suggestions = << >>
    /\ collab_log = << >>
    /\ call_log = << >>
    /\ SaveIdle
    /\ NoRequests
    /\ outcome = [ status |-> Idle ]
    /\ response = << >>
    /\ language = << >>
    /\ extracted = << >>

input_vars ==
    << entry, raw_nodes, raw_connections, metadata, ai_enhance, include_deployment,
       model_available, response, language, extracted >>

\* The direct calls of SpecValidate, which no HTTP request makes, and what
\* belongs to saving and to concurrent generation.
direct_vars == << call_log, save_vars, requests >>

\* The request body (or constructor arguments) is turned into a Workflow:
\* Workflow.validate_nodes runs.
ParseRequest ==
    /\ pc = "request"
    /\ LET error == validate_nodes(raw_nodes)
       IN  IF error # "ok"
           THEN /\ outcome' = ParseFailure(entry, error)
                /\ pc' = "done"
           ELSE /\ outcome' = outcome
                /\ pc' = IF entry = "service" THEN "yaml" ELSE "endpoint"
    /\ UNCHANGED << input_vars, direct_vars, node_idx, validation_issues, generated_files,
                    deployment_configs, ai_suggestions, collab_log >>

\* POST /workflows/validate, were validation to consume the connections it
\* walks.
ValidateEndpoint_consuming_connections ==
    /\ pc = "endpoint"
    /\ entry = "validate"
    /\ validation_issues' = validate_workflow(raw_nodes, raw_connections)
    /\ outcome' = Success("200", validation_issues', FALSE, NoResult)
    /\ pc' = "done"
    /\ raw_connections' = << >>
    /\ UNCHANGED << entry, raw_nodes, metadata, ai_enhance, include_deployment,
                    model_available, response, language, extracted, direct_vars,
                    node_idx, generated_files, deployment_configs,
                    ai_suggestions, collab_log >>

\* POST /workflows/validate
ValidateEndpoint ==
    /\ pc = "endpoint"
    /\ entry = "validate"
    /\ validation_issues' = validate_workflow(raw_nodes, raw_connections)
    /\ outcome' = Success("200", validation_issues', FALSE, NoResult)
    /\ pc' = "done"
    /\ UNCHANGED << input_vars, direct_vars, node_idx, generated_files, deployment_configs,
                    ai_suggestions, collab_log >>

\* POST /workflows/generate up to the call of generate_workflow_code.
GenerateEndpoint ==
    /\ pc = "endpoint"
    /\ entry = "generate"
    /\ validation_issues' = validate_workflow(raw_nodes, raw_connections)
    /\ IF validation_issues' # << >>
       THEN /\ outcome' = ValidationFailure(validation_issues')
            /\ pc' = "done"
       ELSE /\ outcome' = outcome
            /\ pc' = "yaml"
    /\ UNCHANGED << input_vars, direct_vars, node_idx, generated_files, deployment_configs,
                    ai_suggestions, collab_log >>

\* generate_workflow_code: the main workflow YAML.
GenerateYaml ==
    /\ pc = "yaml"
    /\ \E reply \in (IF ai_enhance THEN CollaboratorReplies
                     ELSE { [ ok |-> FALSE, text |-> << >> ] }) :
         LET workflow_yaml ==
                 IF ai_enhance
                 THEN generate_workflow_yaml(model_available, reply)
                 ELSE Returned(FileContent("compiler",
                                   "_generate_basic_workflow_yaml", 0,
                                   _generate_basic_workflow_yaml(raw_nodes)), << >>)
         IN  /\ collab_log' = collab_log \o workflow_yaml.calls
             /\ IF workflow_yaml.raised
                THEN /\ outcome' = GenerationFailure(entry)
                     /\ pc' = "done"
                     /\ generated_files' = generated_files
                ELSE /\ outcome' = outcome
                     /\ pc' = "nodes"
                     /\ generated_files' =
                            Update(generated_files,
                                   [ k \in { << "workflow.yaml" >> } |->
                                       workflow_yaml.value ])
    /\ node_idx' = 0
    /\ UNCHANGED << input_vars, direct_vars, validation_issues, deployment_configs,
                    ai_suggestions >>

\* generate_workflow_code: one iteration of `for node in workflow.nodes`.
GenerateNodeFiles ==
    /\ pc = "nodes"
    /\ node_idx < Len(raw_nodes)
    /\ LET node == raw_nodes[node_idx + 1]
       IN  \E reply \in (IF ai_enhance /\ node.type \in { CLOUD_FUNCTION, CLOUD_RUN }
                         THEN CollaboratorReplies
                         ELSE { [ ok |-> FALSE, text |-> << >> ] }) :
             LET files ==
                     IF node.type = CLOUD_FUNCTION
                     THEN _generate_function_files(node, ai_enhance,
                                                   model_available, reply)
                     ELSE IF node.type = CLOUD_RUN
                     THEN _generate_service_files(node, ai_enhance,
                                                  model_available, reply)
                     ELSE Returned(EmptyDict, << >>)
             IN  /\ collab_log' = collab_log \o files.calls
                 /\ IF files.raised
                    THEN /\ outcome' = GenerationFailure(entry)
                         /\ pc' = "done"
                         /\ generated_files' = generated_files
                    ELSE /\ outcome' = outcome
                         /\ pc' = pc
                         /\ generated_files' = Update(generated_files, files.value)
    /\ node_idx' = node_idx + 1
    /\ UNCHANGED << input_vars, direct_vars, validation_issues, deployment_configs,
                    ai_suggestions >>

\* generate_workflow_code after the node loop: the deployment
\* configurations, then either the suggestions or the response.
GenerateDeployment ==
    /\ pc = "nodes"
    /\ node_idx = Len(raw_nodes)
    /\ deployment_configs' = IF include_deployment
                             THEN _generate_deployment_configs(metadata)
                             ELSE deployment_configs
    /\ pc' = IF ai_enhance THEN "suggest" ELSE "respond"
    /\ node_idx' = 0
    /\ UNCHANGED << input_vars, direct_vars, validation_issues, generated_files,
                    ai_suggestions, collab_log, outcome >>

\* _generate_ai_suggestions: one iteration of its node loop.
SuggestNode ==
    /\ pc = "suggest"
    /\ node_idx < Len(raw_nodes)
    /\ LET node == raw_nodes[node_idx + 1]
       IN  \E reply \in (IF Truthy(node.config.ai_prompt) THEN EnhanceReplies
                         ELSE { [ ok |-> FALSE, with_suggestions |-> FALSE ] }) :
             LET step == SuggestForNode(ai_suggestions, node, model_available, reply)
                 left == IF step.raised THEN SuggestExcept(ai_suggestions) ELSE step
             IN  /\ collab_log' = collab_log \o step.calls
                 /\ IF left.raised
                    THEN /\ outcome' = GenerationFailure(entry)
                         /\ pc' = "done"
                         /\ ai_suggestions' = ai_suggestions
                    ELSE /\ outcome' = outcome
                         /\ pc' = IF step.raised THEN "respond" ELSE pc
                         /\ ai_suggestions' = left.value
    /\ node_idx' = node_idx + 1
    /\ UNCHANGED << input_vars, direct_vars, validation_issues, generated_files,
                    deployment_configs >>

\* _generate_ai_suggestions after its loop.
SuggestGeneral ==
    /\ pc = "suggest"
    /\ node_idx = Len(raw_nodes)
    /\ ai_suggestions' = SuggestTail(ai_suggestions)
    /\ pc' = "respond"
    /\ UNCHANGED << input_vars, direct_vars, node_idx, validation_issues, generated_files,
                    deployment_configs, collab_log, outcome >>

\* generate_workflow_code builds and returns the WorkflowGenerationResponse.
Respond ==
    /\ pc = "respond"
    /\ outcome' = Success(IF entry = "service" THEN "returned" ELSE "200",
                          validation_issues, TRUE,
                          [ generated_files |-> generated_files,
                            deployment_configs |-> deployment_configs,
                            ai_suggestions |-> ai_suggestions ])
    /\ pc' = "done"
    /\ UNCHANGED << input_vars, direct_vars, node_idx, validation_issues, generated_files,
                    deployment_configs, ai_suggestions, collab_log >>

Next ==
    \/ ParseRequest
    \/ ValidateEndpoint
    \/ GenerateEndpoint
    \/ GenerateYaml
    \/ GenerateNodeFiles
    \/ GenerateDeployment
    \/ SuggestNode
    \/ SuggestGeneral
    \/ Respond

Spec == Init /\ [][Next]_vars

\* --------------------------------------- validator and preview, on their own

\* Largest number of nodes other than Start and End in a workflow handed to
\* the validator, and largest number of successive direct calls.
MaxTaskNodes == 2

MaxCalls == 2

\* The node configurations of the required-field table, each with the
\* field missing and with it supplied, and one type outside the table.
TaskKinds ==
    { [type |-> CLOUD_FUNCTION, config |-> WorkflowNodeConfig],
      [type |-> CLOUD_FUNCTION,
       config |-> [WorkflowNodeConfig EXCEPT !.function_name = "process-data"]],
      [type |-> CLOUD_RUN, config |-> WorkflowNodeConfig],
      [type |-> CLOUD_RUN,
       config |-> [WorkflowNodeConfig EXCEPT !.service_name = "api"]],
      [type |-> PUBSUB_PUBLISH, config |-> WorkflowNodeConfig],
      [type |-> PUBSUB_PUBLISH,
       config |-> [WorkflowNodeConfig EXCEPT !.topic_name = "events"]],
      [type |-> PUBSUB_SUBSCRIBE, config |-> WorkflowNodeConfig],
      [type |-> PUBSUB_SUBSCRIBE,
       config |-> [WorkflowNodeConfig EXCEPT !.subscription_name = "events-sub"]],
      [type |-> HTTP_REQUEST, config |-> WorkflowNodeConfig],
      [type |-> HTTP_REQUEST,
       config |-> [WorkflowNodeConfig EXCEPT !.url = "https://api.example.com/data"]],
      [type |-> CONDITION, config |-> WorkflowNodeConfig],
      [type |-> CONDITION,
       config |-> [WorkflowNodeConfig EXCEPT !.condition = "${x > 0}"]],
      [type |-> DELAY,
       config |-> [WorkflowNodeConfig EXCEPT !.delay_seconds = 5]] }

\* The node configurations handed to the compiler: those above, an HTTP
\* request with its method unset and one with method, headers and body
\* given, a delay of 0 seconds and an unspecified one, and every type the
\* compiler has no branch for.
CompiledKinds ==
    TaskKinds
    \cup { [type |-> HTTP_REQUEST,
            config |-> [WorkflowNodeConfig EXCEPT !.url = "https://api.example.com/data",
                                                  !.method = None]],
           [type |-> HTTP_REQUEST,
            config |-> [WorkflowNodeConfig EXCEPT !.url = "https://api.example.com/data",
                                                  !.method = "POST",
                                                  !.headers = [ Accept |-> "application/json" ],
                                                  !.body = [ id |-> "7" ]]],
           [type |-> DELAY, config |-> [WorkflowNodeConfig EXCEPT !.delay_seconds = 0]],
           [type |-> DELAY, config |-> WorkflowNodeConfig] }
    \cup { [type |-> t, config |-> WorkflowNodeConfig]
           : t \in { PARALLEL, ASSIGN, CALL, SWITCH, FOR_LOOP, TRY_CATCH } }

StartKind == [type |-> START, config |-> WorkflowNodeConfig]
EndKind == [type |-> END, config |-> WorkflowNodeConfig]

\* How the Start and End nodes are placed around the other nodes of a
\* submitted list.
Shapes == { "start_end", "end_start", "no_start", "no_end", "two_starts" }

Framed(tasks, shape) ==
    CASE shape = "start_end" -> << StartKind >> \o tasks \o << EndKind >>
      [] shape = "end_start" -> << EndKind >> \o tasks \o << StartKind >>
      [] shape = "no_start" -> tasks
      [] shape = "no_end" -> << StartKind >> \o tasks
      [] OTHER -> << StartKind, StartKind >> \o tasks \o << EndKind >>

\* The node lists made of up to `most` nodes of `kinds`, framed by Start
\* and End nodes or lacking them.
FramedNodeLists(kinds, most) ==
    UNION { { LET ks == Framed(tasks, shape)
              IN  [ i \in 1..Len(ks) |-> WorkflowNode(i, ks[i]) ]
              : tasks \in [1..n -> kinds], shape \in Shapes }
            : n \in 0..most }

\* Largest number of nodes other than Start and End in a workflow handed
\* directly to the compiler, which lowers each node by itself.
MaxCompiledNodes == 1

\* The node lists handed to the validator, and those handed to the
\* compiler.
ValidatedNodeLists == FramedNodeLists(TaskKinds, MaxTaskNodes)

CompiledNodeLists == FramedNodeLists(CompiledKinds, MaxCompiledNodes)

\* An id no node of a submitted list has.
GhostId == 0

\* The connection lists handed to the validator for n nodes: none; each
\* node to the next; the first node to the second only; each node to the
\* next and the last node to a node that does not exist.
ValidatedConnectionLists(n) ==
    LET chain == [ i \in 1..(IF n < 2 THEN 0 ELSE n - 1) |-> WorkflowConnection(i, i + 1) ]
    IN  { << >>, chain, SubSeq(chain, 1, IF Len(chain) < 1 THEN 0 ELSE 1),
          Append(chain, WorkflowConnection(n, GhostId)) }

\* POST /workflows/preview, and direct calls of validate_workflow and of
\* _generate_basic_workflow_yaml on a constructed Workflow.
ValidateEntries == { "preview", "validate_workflow", "_generate_basic_workflow_yaml" }

InitValidate ==
    /\ entry \in ValidateEntries
    /\ raw_nodes \in (IF entry = "_generate_basic_workflow_yaml"
                      THEN CompiledNodeLists ELSE ValidatedNodeLists)
    /\ raw_connections \in (IF entry = "_generate_basic_workflow_yaml" THEN { << >> }
                            ELSE ValidatedConnectionLists(Len(raw_nodes)))
    /\ metadata = WorkflowMetadata
    /\ ai_enhance = FALSE
    /\ include_deployment = FALSE
    /\ model_available = FALSE
    /\ pc = "request"
    /\ node_idx = 0
    /\ validation_issues = << >>
    /\ generated_files = EmptyDict
    /\ deployment_configs = EmptyDict
    /\ ai_suggestions = << >>
    /\ collab_log = << >>
    /\ call_log = << >>
    /\ SaveIdle
    /\ NoRequests
    /\ outcome = [ status |-> Idle ]
    /\ response = << >>
    /\ language = << >>
    /\ extracted = << >>

\* Workflow(...) is constructed, by FastAPI from the body or by the caller:
\* Workflow.validate_nodes runs.
ConstructWorkflow ==
    /\ pc = "request"
    /\ LET error == validate_nodes(raw_nodes)
       IN  IF error # "ok"
           THEN /\ outcome' = IF entry = "preview"
                              THEN Failure("422", error, << >>)
                              ELSE Failure("ValidationError", error, << >>)
                /\ pc' = "done"
           ELSE /\ outcome' = outcome
                /\ pc' = IF entry = "preview" THEN "endpoint" ELSE "constructed"
    /\ UNCHANGED << input_vars, direct_vars, node_idx, validation_issues,
                    generated_files, deployment_configs, ai_suggestions,
                    collab_log >>

\* POST /workflows/preview compiling whatever the validator says.
PreviewEndpoint_always_compiles ==
    /\ pc = "endpoint"
    /\ entry = "preview"
    /\ validation_issues' = validate_workflow(raw_nodes, raw_connections)
    /\ outcome' = Success("200", << >>, TRUE,
                          [ yaml_content |-> _generate_basic_workflow_yaml(raw_nodes) ])
    /\ pc' = "done"
    /\ UNCHANGED << input_vars, direct_vars, node_idx, generated_files,
                    deployment_configs, ai_suggestions, collab_log >>

\* POST /workflows/preview: yaml_content is None when there are issues.
PreviewEndpoint ==
    /\ pc = "endpoint"
    /\ entry = "preview"
    /\ validation_issues' = validate_workflow(raw_nodes, raw_connections)
    /\ outcome' =
         IF validation_issues' # << >>
         THEN Success("200", validation_issues', FALSE,
                      [ yaml_content |-> [ main |-> [ steps |-> << >> ] ] ])
         ELSE Success("200", << >>, TRUE,
                      [ yaml_content |-> _generate_basic_workflow_yaml(raw_nodes) ])
    /\ pc' = "done"
    /\ UNCHANGED << input_vars, direct_vars, node_idx, generated_files,
                    deployment_configs, ai_suggestions, collab_log >>

\* workflow_service.validate_workflow(workflow), called on the constructed
\* workflow, which it only reads.
CallValidate ==
    /\ pc = "constructed"
    /\ entry = "validate_workflow"
    /\ Len(call_log) < MaxCalls
    /\ call_log' = Append(call_log, [ op |-> "validate_workflow",
                                      value |-> validate_workflow(raw_nodes, raw_connections) ])
    /\ UNCHANGED << input_vars, pc, node_idx, validation_issues, generated_files,
                    deployment_configs, ai_suggestions, collab_log, outcome,
                    save_vars, requests >>

\* workflow_service._generate_basic_workflow_yaml(workflow), called on the
\* constructed workflow, which it only reads.
CallCompile ==
    /\ pc = "constructed"
    /\ entry = "_generate_basic_workflow_yaml"
    /\ Len(call_log) < MaxCalls
    /\ call_log' = Append(call_log, [ op |-> "_generate_basic_workflow_yaml",
                                      value |-> _generate_basic_workflow_yaml(raw_nodes) ])
    /\ UNCHANGED << input_vars, pc, node_idx, validation_issues, generated_files,
                    deployment_configs, ai_suggestions, collab_log, outcome,
                    save_vars, requests >>

NextValidate ==
    \/ ConstructWorkflow
    \/ PreviewEndpoint
    \/ CallValidate
    \/ CallCompile

SpecValidate == InitValidate /\ [][NextValidate]_vars

\* ------------------------------------- generation for several artifact nodes

\* Largest number of Cloud Function and Cloud Run nodes between the Start
\* and the End node of a workflow submitted for generation.
MaxArtifactNodes == 2

\* The nodes that get files of their own, each with the name validation
\* requires.
ArtifactKinds ==
    { [type |-> CLOUD_FUNCTION,
       config |-> [WorkflowNodeConfig EXCEPT !.function_name = "process-data"]],
      [type |-> CLOUD_FUNCTION,
       config |-> [WorkflowNodeConfig EXCEPT !.function_name = "send-report",
                                             !.ai_prompt = "hint"]],
      [type |-> CLOUD_RUN,
       config |-> [WorkflowNodeConfig EXCEPT !.service_name = "api"]] }

\* Start, up to MaxArtifactNodes artifact nodes, End.
ArtifactNodeLists ==
    UNION { { LET ks == << StartKind >> \o tasks \o << EndKind >>
              IN  [ i \in 1..Len(ks) |-> WorkflowNode(i, ks[i]) ]
              : tasks \in [1..n -> ArtifactKinds] }
            : n \in 0..MaxArtifactNodes }

\* A request to POST /workflows/generate or POST /workflows/validate with
\* such a workflow, each node connected to the next.
InitArtifacts ==
    /\ entry \in { "generate", "validate" }
    /\ raw_nodes \in ArtifactNodeLists
    /\ raw_connections = [ i \in 1..(Len(raw_nodes) - 1) |-> WorkflowConnection(i, i + 1) ]
    /\ ai_enhance \in (IF entry = "validate" THEN { FALSE } ELSE BOOLEAN)
    /\ include_deployment \in (IF entry = "validate" THEN { FALSE } ELSE BOOLEAN)
    /\ metadata = WorkflowMetadata
    /\ model_available \in (IF ai_enhance THEN BOOLEAN ELSE { FALSE })
    /\ pc = "request"
    /\ node_idx = 0
    /\ validation_issues = << >>
    /\ generated_files = EmptyDict
    /\ deployment_configs = EmptyDict
    /\ ai_suggestions = << >>
    /\ collab_log = << >>
    /\ call_log = << >>
    /\ SaveIdle
    /\ NoRequests
    /\ outcome = [ status |-> Idle ]
    /\ response = << >>
    /\ language = << >>
    /\ extracted = << >>

SpecArtifacts == InitArtifacts /\ [][Next]_vars

\* ------------------------------------------------------------ persistence

\* Largest number of entries of a saved filename-to-content map.
MaxFiles == 2

\* A path: absolute or relative, and its segments.
PathOf(abs, segs) == [ abs |-> abs, segs |-> segs ]

\* Settings.WORKFLOWS_STORAGE_PATH, the workflow id of the URL, and the
\* working directory of the server.
WORKFLOWS_STORAGE_PATH == PathOf(FALSE, << "generated_workflows" >>)

WorkflowId == PathOf(FALSE, << "wf-1" >>)

WorkingDirectory == << "srv" >>

\* os.path.join(a, b): an absolute b discards a.
PathJoin(a, b) ==
    IF b.abs THEN b ELSE PathOf(a.abs, a.segs \o b.segs)

RECURSIVE DotDot(_)
\* The segments left once every ".." has taken back the segment before it
\* (none at the root).
DotDot(segs) ==
    IF segs = << >> THEN << >>
    ELSE LET before == DotDot(SubSeq(segs, 1, Len(segs) - 1))
             last == segs[Len(segs)]
         IN  IF last # ".." THEN Append(before, last)
             ELSE IF before = << >> THEN << >>
             ELSE SubSeq(before, 1, Len(before) - 1)

\* The place in the file system a path denotes when it is opened.
Resolve(path) ==
    DotDot(IF path.abs THEN path.segs ELSE WorkingDirectory \o path.segs)

\* The filenames a caller may use as keys of the map: a plain one, one in
\* a subdirectory, one climbing out with "..", one that climbs and comes
\* back, an absolute one, and the empty string.
FileNames ==
    { PathOf(FALSE, << "workflow.yaml" >>),
      PathOf(FALSE, << "functions", "main.py" >>),
      PathOf(FALSE, << "..", "workflow.yaml" >>),
      PathOf(FALSE, << "functions", "..", "workflow.yaml" >>),
      PathOf(TRUE, << "tmp", "workflow.yaml" >>),
      PathOf(FALSE, << >>) }

\* The maps a caller may submit: up to MaxFiles entries with distinct
\* keys, in insertion order; the content of an entry is named after its
\* place.
FileMaps ==
    UNION { { [ i \in 1..n |-> [ filename |-> names[i], content |-> i ] ]
              : names \in { f \in [1..n -> FileNames] :
                              \A i, j \in 1..n : i # j => f[i] # f[j] } }
            : n \in 0..MaxFiles }

\* The output_path query parameter: left out, or a directory.
OutputPaths == { NonePath, PathOf(TRUE, << "tmp", "out" >>), PathOf(FALSE, << "out" >>) }

\* A request to POST /workflows/save/{workflow_id} arrives; nothing has
\* been written.
InitSave ==
    /\ entry = "save"
    /\ raw_nodes = << >>
    /\ raw_connections = << >>
    /\ metadata = WorkflowMetadata
    /\ ai_enhance = FALSE
    /\ include_deployment = FALSE
    /\ model_available = FALSE
    /\ node_idx = 0
    /\ validation_issues = << >>
    /\ generated_files = EmptyDict
    /\ deployment_configs = EmptyDict
    /\ ai_suggestions = << >>
    /\ collab_log = << >>
    /\ call_log = << >>
    /\ outcome = [ status |-> Idle ]
    /\ pc = "request"
    /\ save_files \in FileMaps
    /\ output_path \in OutputPaths
    /\ file_idx = 0
    /\ disk = EmptyDict
    /\ requests = << >>
    /\ response = << >>
    /\ language = << >>
    /\ extracted = << >>

save_frame ==
    << raw_nodes, raw_connections, metadata, ai_enhance, include_deployment,
       model_available, node_idx, validation_issues, generated_files,
       deployment_configs, ai_suggestions, collab_log, call_log, requests,
       response, language, extracted, entry, save_files >>

\* save_workflow_files up to its loop: the default output path, and the
\* output directory created.
SaveOutputPath ==
    /\ pc = "request"
    /\ entry = "save"
    /\ output_path' = IF output_path = NonePath
                      THEN PathJoin(WORKFLOWS_STORAGE_PATH, WorkflowId)
                      ELSE output_path
    /\ pc' = "files"
    /\ UNCHANGED << save_frame, file_idx, disk, outcome >>

\* One iteration of `for filename, content in files.items()`: the file is
\* written where os.path.join puts it; opening the output directory itself
\* (an empty filename) raises, which the endpoint answers with 500.
SaveFile ==
    /\ pc = "files"
    /\ file_idx < Len(save_files)
    /\ LET item == save_files[file_idx + 1]
           file_path == PathJoin(output_path, item.filename)
       IN  IF item.filename.segs = << >>
           THEN /\ outcome' = [ status |-> "500", error |-> "IsADirectoryError" ]
                /\ pc' = "done"
                /\ disk' = disk
           ELSE /\ outcome' = outcome
                /\ pc' = pc
                /\ disk' = Update(disk, [ k \in { Resolve(file_path) } |-> item.content ])
    /\ file_idx' = file_idx + 1
    /\ UNCHANGED << save_frame, output_path >>

\* After the loop: save_workflow_files returns output_path and the
\* endpoint answers with it and with len(files).
SaveReturn ==
    /\ pc = "files"
    /\ file_idx = Len(save_files)
    /\ outcome' = [ status |-> "200", output_path |-> output_path,
                    files_count |-> Len(save_files) ]
    /\ pc' = "done"
    /\ UNCHANGED << save_frame, output_path, file_idx, disk >>

NextSave ==
    \/ SaveOutputPath
    \/ SaveFile
    \/ SaveReturn

SpecSave == InitSave /\ [][NextSave]_vars

\* ---------------------------------------------------- concurrent requests

\* The two requests of POST /workflows/generate handled together.
RequestIds == { 1, 2 }

\* The workflows they submit: Start, one node, End, each node connected to
\* the next.  The third lacks the name validation requires.
ConcurrentKinds ==
    { [type |-> CLOUD_FUNCTION,
       config |-> [WorkflowNodeConfig EXCEPT !.function_name = "process-data"]],
      [type |-> CLOUD_RUN,
       config |-> [WorkflowNodeConfig EXCEPT !.service_name = "api",
                                             !.ai_prompt = "hint"]],
      [type |-> CLOUD_FUNCTION, config |-> WorkflowNodeConfig] }

\* What the body of a request sets, and what the collaborator answers to
\* the calls made for it: the same answers whenever the calls are made.
RequestBodies ==
    { [ nodes |-> [ i \in 1..3 |-> WorkflowNode(i, << StartKind, k, EndKind >>[i]) ],
        connections |-> << WorkflowConnection(1, 2), WorkflowConnection(2, 3) >>,
        metadata |-> WorkflowMetadata,
        ai_enhance |-> m.ai_enhance,
        include_deployment |-> m.include_deployment,
        reply |-> m.reply,
        enhance_reply |-> [ ok |-> TRUE, with_suggestions |-> TRUE ] ]
      : k \in ConcurrentKinds,
        m \in { [ ai_enhance |-> FALSE, include_deployment |-> TRUE,
                  reply |-> [ ok |-> FALSE, text |-> << >> ] ],
                [ ai_enhance |-> TRUE, include_deployment |-> FALSE,
                  reply |-> [ ok |-> TRUE, text |-> Fence \o << "x", " " >> \o Fence ] ],
                [ ai_enhance |-> TRUE, include_deployment |-> TRUE,
                  reply |-> [ ok |-> FALSE, text |-> << >> ] ] } }

\* A request as its handler starts: the body, and the locals of the
\* endpoint and of generate_workflow_code (each request constructs its own
\* WorkflowService and AIService).
Started(body) ==
    [ body |-> body, pc |-> "request", node_idx |-> 0,
      validation_issues |-> << >>, generated_files |-> EmptyDict,
      deployment_configs |-> EmptyDict, ai_suggestions |-> << >>,
      outcome |-> [ status |-> Idle ] ]

\* The request stopped by an exception.
Failed(req, failure) == [ req EXCEPT !.outcome = failure, !.pc = "done" ]

\* The handler of one request up to its next suspension point or its end,
\* given whether the shared settings configure a model.
Advance(req, available) ==
    LET b == req.body
    IN  CASE req.pc = "request" ->
               LET error == validate_nodes(b.nodes)
               IN  IF error # "ok" THEN Failed(req, ParseFailure("generate", error))
                   ELSE [ req EXCEPT !.pc = "endpoint" ]
          [] req.pc = "endpoint" ->
               LET issues == validate_workflow(b.nodes, b.connections)
               IN  IF issues # << >>
                   THEN Failed([ req EXCEPT !.validation_issues = issues ],
                               ValidationFailure(issues))
                   ELSE [ req EXCEPT !.pc = "yaml" ]
          [] req.pc = "yaml" ->
               LET workflow_yaml ==
                       IF b.ai_enhance
                       THEN generate_workflow_yaml(available, b.reply)
                       ELSE Returned(FileContent("compiler",
                                         "_generate_basic_workflow_yaml", 0,
                                         _generate_basic_workflow_yaml(b.nodes)), << >>)
               IN  IF workflow_yaml.raised THEN Failed(req, GenerationFailure("generate"))
                   ELSE [ req EXCEPT
                            !.pc = "nodes",
                            !.generated_files =
                                Update(req.generated_files,
                                       [ k \in { << "workflow.yaml" >> } |->
                                           workflow_yaml.value ]) ]
          [] req.pc = "nodes" /\ req.node_idx < Len(b.nodes) ->
               LET node == b.nodes[req.node_idx + 1]
                   node_files ==
                       IF node.type = CLOUD_FUNCTION
                       THEN _generate_function_files(node, b.ai_enhance, available, b.reply)
                       ELSE IF node.type = CLOUD_RUN
                       THEN _generate_service_files(node, b.ai_enhance, available, b.reply)
                       ELSE Returned(EmptyDict, << >>)
               IN  IF node_files.raised
                   THEN Failed([ req EXCEPT !.node_idx = req.node_idx + 1 ],
                               GenerationFailure("generate"))
                   ELSE [ req EXCEPT
                            !.node_idx = req.node_idx + 1,
                            !.generated_files =
                                Update(req.generated_files, node_files.value) ]
          [] req.pc = "nodes" /\ req.node_idx >= Len(b.nodes) ->
               [ req EXCEPT
                   !.deployment_configs =
                       IF b.include_deployment
                       THEN _generate_deployment_configs(b.metadata)
                       ELSE req.deployment_configs,
                   !.pc = IF b.ai_enhance THEN "suggest" ELSE "respond",
                   !.node_idx = 0 ]
          [] req.pc = "suggest" /\ req.node_idx < Len(b.nodes) ->
               LET node == b.nodes[req.node_idx + 1]
                   step == SuggestForNode(req.ai_suggestions, node, available,
                                          b.enhance_reply)
                   left == IF step.raised THEN SuggestExcept(req.ai_suggestions)
                           ELSE step
               IN  IF left.raised
                   THEN Failed([ req EXCEPT !.node_idx = req.node_idx + 1 ],
                               GenerationFailure("generate"))
                   ELSE [ req EXCEPT
                            !.node_idx = req.node_idx + 1,
                            !.pc = IF step.raised THEN "respond" ELSE req.pc,
                            !.ai_suggestions = left.value ]
          [] req.pc = "suggest" /\ req.node_idx >= Len(b.nodes) ->
               [ req EXCEPT !.ai_suggestions = SuggestTail(req.ai_suggestions),
                            !.pc = "respond" ]
          [] req.pc = "respond" ->
               [ req EXCEPT
                   !.outcome = Success("200", req.validation_issues, TRUE,
                                       [ generated_files |-> req.generated_files,
                                         deployment_configs |-> req.deployment_configs,
                                         ai_suggestions |-> req.ai_suggestions ]),
                   !.pc = "done" ]
          [] OTHER -> req

\* What running the requests leaves alone: the state of the single-request
\* specifications.
request_frame ==
    << entry, raw_nodes, raw_connections, metadata, ai_enhance, include_deployment,
       model_available, node_idx, validation_issues, generated_files,
       deployment_configs, ai_suggestions, collab_log, call_log, outcome,
       save_vars >>

\* Two requests have arrived; neither has run.
InitConcurrent ==
    /\ entry = "generate"
    /\ raw_nodes = << >>
    /\ raw_connections = << >>
    /\ metadata = WorkflowMetadata
    /\ ai_enhance = FALSE
    /\ include_deployment = FALSE
    /\ node_idx = 0
    /\ validation_issues = << >>
    /\ generated_files = EmptyDict
    /\ deployment_configs = EmptyDict
    /\ ai_suggestions = << >>
    /\ collab_log = << >>
    /\ call_log = << >>
    /\ outcome = [ status |-> Idle ]
    /\ SaveIdle
    /\ pc = "serving"
    /\ model_available \in BOOLEAN
    /\ requests \in [ RequestIds -> { Started(body) : body \in RequestBodies } ]
    /\ response = << >>
    /\ language = << >>
    /\ extracted = << >>

\* The event loop resumes request r, which runs to its next suspension
\* point, were the services to keep their file map in one place.
StepRequest_shared_files(r) ==
    /\ r \in RequestIds
    /\ requests[r].pc # "done"
    /\ LET after == Advance(requests[r], model_available)
       IN  requests' = [ s \in RequestIds |->
                           IF s = r THEN after
                           ELSE [ requests[s] EXCEPT
                                    !.generated_files = after.generated_files ] ]
    /\ UNCHANGED << request_frame, pc, response, language, extracted >>

\* The event loop resumes request r, which runs to its next suspension
\* point: only its own locals change.
StepRequest(r) ==
    /\ r \in RequestIds
    /\ requests[r].pc # "done"
    /\ requests' = [ requests EXCEPT ![r] = Advance(requests[r], model_available) ]
    /\ UNCHANGED << request_frame, pc, response, language, extracted >>

NextConcurrent == \E r \in RequestIds : StepRequest(r)

SpecConcurrent == InitConcurrent /\ [][NextConcurrent]_vars

\* ------------------------------------------------------------------ claims

StartCount == Len(OfType(raw_nodes, START))
EndCount == Len(OfType(raw_nodes, END))

\* Invariants 1-2 of the data model fail.
StructurallyInvalid == StartCount # 1 \/ EndCount = 0

GenerateEntry == entry \in { "generate", "service" }

ArtifactOps == { "generate_cloud_function_code", "generate_cloud_run_dockerfile" }

FailedCalls(ops) ==
    { i \in 1..Len(collab_log) : collab_log[i].op \in ops /\ ~collab_log[i].ok }

\* The step list of the compiled step-document, once generate has produced
\* it in deterministic mode.
HasCompiledDoc ==
    /\ << "workflow.yaml" >> \in DOMAIN generated_files
    /\ generated_files[<< "workflow.yaml" >>].origin = "compiler"

CompiledSteps == generated_files[<< "workflow.yaml" >>].text.main.steps

\* ---- C1 ----

\* C1: for a workflow whose Start-node count is not exactly 1 or whose
\* End-node count is 0, generate produces no step-document, no artifact
\* file, no deployment descriptor and no collaborator call: the request
\* is rejected first.
C1_InvalidStructureRejectedBeforeWork ==
    (GenerateEntry /\ StructurallyInvalid) =>
        /\ generated_files = EmptyDict
        /\ deployment_configs = EmptyDict
        /\ ai_suggestions = << >>
        /\ collab_log = << >>
        /\ pc \in { "request", "done" }
        /\ pc = "done" =>
              /\ ~outcome.has_result
              /\ outcome.status \in { "422", "ValidationError" }

C1_Witness ==
    /\ entry = "service"
    /\ ai_enhance
    /\ model_available
    /\ include_deployment
    /\ StartCount = 2
    /\ EndCount = 1
    /\ pc = "done"
    /\ outcome.status = "ValidationError"

\* ---- C2 ----

\* C2: POST /workflows/generate on a workflow with at least one validation
\* issue answers 400 with the message and the issues, and runs no code
\* generation.
C2_InvalidWorkflowAnswered400 ==
    (entry = "generate" /\ pc = "done" /\ validation_issues # << >>) =>
        /\ outcome.status = "400"
        /\ outcome.issues = validation_issues
        /\ generated_files = EmptyDict
        /\ collab_log = << >>

\* ---- C3 ----

\* C3: for a workflow with zero nodes the validate endpoint answers 200
\* with is_valid false and an issue list holding the Start-node issue and
\* the missing-End-node issue.
C3_EmptyWorkflowValidates ==
    (entry = "validate" /\ Len(raw_nodes) = 0 /\ pc = "done") =>
        /\ outcome.status = "200"
        /\ Issue("Workflow must have exactly one START node", None)
               \in Range(outcome.issues)
        /\ Issue("Workflow must have at least one END node", None)
               \in Range(outcome.issues)

\* ---- C4 ----

\* C4: with enrichment disabled generate never calls the collaborator, and
\* for a structurally valid workflow with a node that is neither Start nor
\* End it returns a step-document whose step list is not empty.
C4_DeterministicModeNeedsNoCollaborator ==
    (GenerateEntry /\ ~ai_enhance) =>
        /\ collab_log = << >>
        /\ ( /\ pc = "done"
             /\ ~StructurallyInvalid
             /\ \E i \in 1..Len(raw_nodes) : raw_nodes[i].type \notin { START, END }
             /\ (entry = "service" \/ validation_issues = << >>) ) =>
               /\ outcome.has_result
               /\ << "workflow.yaml" >> \in DOMAIN outcome.result.generated_files
               /\ outcome.result.generated_files[<< "workflow.yaml" >>]
                      .text.main.steps # << >>

C4_Witness ==
    /\ entry = "service"
    /\ ~ai_enhance
    /\ include_deployment
    /\ pc = "done"
    /\ outcome.has_result
    /\ \E i \in 1..Len(raw_nodes) : raw_nodes[i].type = CLOUD_FUNCTION
    /\ DOMAIN outcome.result.deployment_configs # {}
    /\ Len(outcome.result.generated_files[<< "workflow.yaml" >>].text.main.steps) = 2

\* ---- C6 ----

\* C6: in enriched mode a failed collaborator call for a CloudFunction or
\* CloudRun node ends the generation in an error; no template text is
\* returned for that node in place of the collaborator's output.
C6_EnrichedFailureNotMasked ==
    \A i \in FailedCalls(ArtifactOps) :
        /\ i = Len(collab_log)
        /\ pc = "done"
        /\ ~outcome.has_result
        /\ outcome.status \in { "500", "raised" }
        /\ \A k \in DOMAIN generated_files :
              ~( /\ generated_files[k].node = collab_log[i].node
                 /\ generated_files[k].origin = "template" )

C6_Witness ==
    /\ ai_enhance
    /\ model_available
    /\ pc = "done"
    /\ \E i \in FailedCalls({ "generate_cloud_function_code" }) : collab_log[i].reached
    /\ outcome.status = "raised"

\* ---- C7 ----

HintNodes == { i \in 1..Len(raw_nodes) : Truthy(raw_nodes[i].config.ai_prompt) }

\* C7: in enriched mode a failed collaborator call for one hint-carrying
\* node does not end the suggestion collection: every hint-carrying node
\* gets its call and the general suggestions are still appended.
C7_SuggestionFailureToleratedPerNode ==
    (GenerateEntry /\ ai_enhance /\ pc = "done" /\ outcome.has_result) =>
        /\ \A n \in HintNodes :
              \E i \in 1..Len(collab_log) :
                  /\ collab_log[i].op = "enhance_node_configuration"
                  /\ collab_log[i].node = raw_nodes[n].id
        /\ Len(outcome.result.ai_suggestions) < SuggestionLimit =>
              /\ Len(outcome.result.ai_suggestions) >= Len(GeneralSuggestions)
              /\ SubSeq(outcome.result.ai_suggestions,
                        Len(outcome.result.ai_suggestions) - Len(GeneralSuggestions) + 1,
                        Len(outcome.result.ai_suggestions)) = GeneralSuggestions

\* ---- C8 ----

\* The file names generate is to produce for the submitted nodes.
ExpectedFileKeys ==
    { << "workflow.yaml" >> }
    \cup UNION { { << "functions", FunctionName(raw_nodes[i]), "main.py" >>,
                   << "functions", FunctionName(raw_nodes[i]), "requirements.txt" >> }
                 : i \in { j \in 1..Len(raw_nodes) : raw_nodes[j].type = CLOUD_FUNCTION } }
    \cup UNION { { << "services", ServiceName(raw_nodes[i]), "Dockerfile" >>,
                   << "services", ServiceName(raw_nodes[i]), "main.py" >>,
                   << "services", ServiceName(raw_nodes[i]), "requirements.txt" >> }
                 : i \in { j \in 1..Len(raw_nodes) : raw_nodes[j].type = CLOUD_RUN } }

ExpectedDeploymentKeys ==
    { << "cloudbuild.yaml" >>, << "terraform", "main.tf" >>, << "deploy.sh" >> }

PositionOf(nodes, id) == CHOOSE p \in 1..Len(nodes) : nodes[p].id = id

TypeOf(nodes, id) == nodes[PositionOf(nodes, id)].type

Reordered(nodes, perm) == [ i \in 1..Len(nodes) |-> nodes[perm[i]] ]

\* C9 as stated: every step, the return step of an End node included, is
\* keyed step_<index> with the index of its node in workflow.nodes.
C9_EveryKeyIsStepIndex ==
    HasCompiledDoc =>
        \A k \in 1..Len(CompiledSteps) :
            CompiledSteps[k].key =
                StepKey("step_", PositionOf(raw_nodes, CompiledSteps[k].node) - 1)

\* C9 amended: every step is keyed by the 0-based position of its node in
\* workflow.nodes, as step_<index> for a node that is not an End node and
\* as end_step_<index> for an End node; the keys of one document are
\* pairwise distinct, and a node that is moved to another position gets
\* another key.
C9_KeysArePositional ==
    HasCompiledDoc =>
        /\ \A k \in 1..Len(CompiledSteps) :
              CompiledSteps[k].key =
                  StepKey(IF TypeOf(raw_nodes, CompiledSteps[k].node) = END
                          THEN "end_step_" ELSE "step_",
                          PositionOf(raw_nodes, CompiledSteps[k].node) - 1)
        /\ \A k, l \in 1..Len(CompiledSteps) :
              k # l => CompiledSteps[k].key # CompiledSteps[l].key
        /\ \A perm \in Permutations(1..Len(raw_nodes)) :
              LET moved == Reordered(raw_nodes, perm)
                  steps == _generate_basic_workflow_yaml(moved).main.steps
              IN  \A k \in 1..Len(CompiledSteps), l \in 1..Len(steps) :
                      ( /\ CompiledSteps[k].node = steps[l].node
                        /\ PositionOf(moved, steps[l].node)
                             # PositionOf(raw_nodes, steps[l].node) ) =>
                          CompiledSteps[k].key # steps[l].key

C9_Witness ==
    /\ HasCompiledDoc
    /\ Len(CompiledSteps) = 2
    /\ CompiledSteps[1].key = StepKey("end_step_", 0)
    /\ CompiledSteps[2].key = StepKey("step_", 2)

\* ---- C10 ----

NotStart(nodes) == SelectSeq(nodes, LAMBDA n : n.type # START)

\* C10: compile emits no step for a Start node and one step for every
\* other node, in the order of workflow.nodes whatever the connections
\* are; the step of an End node is a return step referencing the result
\* variable, and no other node gets a return step.
C10_OneStepPerNonStartNodeInOrder ==
    HasCompiledDoc =>
        /\ Len(CompiledSteps) = Len(NotStart(raw_nodes))
        /\ \A k \in 1..Len(CompiledSteps) :
              /\ CompiledSteps[k].node = NotStart(raw_nodes)[k].id
              /\ (NotStart(raw_nodes)[k].type = END)
                   <=> (CompiledSteps[k].step = [ return |-> "${result}" ])

C10_Witness ==
    /\ HasCompiledDoc
    /\ Len(raw_nodes) = 3
    /\ raw_nodes[1].type = END
    /\ raw_nodes[2].type = HTTP_REQUEST
    /\ raw_nodes[3].type = START
    /\ raw_connections = << >>
    /\ Len(CompiledSteps) = 2

\* ---- helpers of the validator claims ----

NodeIds == { raw_nodes[i].id : i \in 1..Len(raw_nodes) }

ConnectionEndpoints ==
    UNION { { raw_connections[c].source_node_id, raw_connections[c].target_node_id }
            : c \in 1..Len(raw_connections) }

\* The issue lists the direct calls of validate_workflow returned so far.
ValidateResults ==
    { call_log[c].value : c \in { d \in 1..Len(call_log) :
                                    call_log[d].op = "validate_workflow" } }

\* How often an issue occurs in an issue list.
Occurrences(issues, issue) ==
    Cardinality({ k \in 1..Len(issues) : issues[k] = issue })

ConnectivityIssue(node) == Issue("Node '{name}' is not connected", node.name)

IsTask(node) == node.type \notin { START, END }

Orphans == { i \in 1..Len(raw_nodes) :
               IsTask(raw_nodes[i]) /\ raw_nodes[i].id \notin ConnectionEndpoints }

\* ---- C11 ----

\* C11: in every workflow for which validate returns no issues, every
\* connection's source_node_id and target_node_id is the id of a node of
\* workflow.nodes.
C11_NoIssuesMeansEndpointsExist ==
    (<< >> \in ValidateResults) => ConnectionEndpoints \subseteq NodeIds

\* ---- C12 ----

\* C12: validate emits exactly one connectivity issue naming a node that is
\* neither Start nor End if and only if the node's id is no endpoint of any
\* connection, and none naming a Start or End node (nor any other one).
C12_OneConnectivityIssuePerOrphan ==
    \A issues \in ValidateResults :
        /\ \A i \in 1..Len(raw_nodes) :
             Occurrences(issues, ConnectivityIssue(raw_nodes[i])) =
                 IF i \in Orphans THEN 1 ELSE 0
        /\ Cardinality({ k \in 1..Len(issues) :
                           issues[k].text = "Node '{name}' is not connected" })
             = Cardinality(Orphans)

\* A validate call on a workflow with a connected and an unconnected node
\* that are neither Start nor End, and an unconnected End node.
C12_Witness ==
    /\ ValidateResults # { }
    /\ Orphans # { }
    /\ \E i \in 1..Len(raw_nodes) :
         IsTask(raw_nodes[i]) /\ raw_nodes[i].id \in ConnectionEndpoints
    /\ \E i \in 1..Len(raw_nodes) :
         raw_nodes[i].type = END /\ raw_nodes[i].id \notin ConnectionEndpoints

\* ---- C13 ----

\* The required-field table: type -> field, with the issue text of the type.
RequiredField ==
    [ t \in { CLOUD_FUNCTION, CLOUD_RUN, PUBSUB_PUBLISH, PUBSUB_SUBSCRIBE,
              HTTP_REQUEST, CONDITION } |->
        CASE t = CLOUD_FUNCTION ->
               [ field |-> "function_name",
                 text |-> "Cloud Function node '{name}' missing function_name" ]
          [] t = CLOUD_RUN ->
               [ field |-> "service_name",
                 text |-> "Cloud Run node '{name}' missing service_name" ]
          [] t = PUBSUB_PUBLISH ->
               [ field |-> "topic_name",
                 text |-> "Pub/Sub Publish node '{name}' missing topic_name" ]
          [] t = PUBSUB_SUBSCRIBE ->
               [ field |-> "subscription_name",
                 text |-> "Pub/Sub Subscribe node '{name}' missing subscription_name" ]
          [] t = HTTP_REQUEST ->
               [ field |-> "url", text |-> "HTTP Request node '{name}' missing url" ]
          [] OTHER ->
               [ field |-> "condition",
                 text |-> "Condition node '{name}' missing condition" ] ]

RequiredFieldTexts == { RequiredField[t].text : t \in DOMAIN RequiredField }

\* The nodes of the submitted list whose required field is missing.
MissingField ==
    { i \in 1..Len(raw_nodes) :
        /\ raw_nodes[i].type \in DOMAIN RequiredField
        /\ raw_nodes[i].config[RequiredField[raw_nodes[i].type].field] = None }

\* The submitted list with the required field of node i supplied.
Supplied(i) ==
    [ raw_nodes EXCEPT
        ![i].config[RequiredField[raw_nodes[i].type].field] = "supplied" ]

RequiredFieldIssue(node) == Issue(RequiredField[node.type].text, node.name)

\* C13: validate emits exactly one issue naming the node and the field for a
\* node of a type of the required-field table if and only if the field is
\* missing; supplying the field removes exactly that issue and changes no
\* other; nodes of the other types produce no required-field issue.
C13_OneIssuePerMissingRequiredField ==
    \A issues \in ValidateResults :
        /\ \A i \in 1..Len(raw_nodes) :
             LET named == { k \in 1..Len(issues) :
                              /\ issues[k].text \in RequiredFieldTexts
                              /\ issues[k].name = raw_nodes[i].name }
             IN  IF i \in MissingField
                 THEN /\ Cardinality(named) = 1
                      /\ \A k \in named : issues[k] = RequiredFieldIssue(raw_nodes[i])
                 ELSE named = { }
        /\ \A i \in MissingField :
             validate_workflow(Supplied(i), raw_connections) =
                 SelectSeq(issues, LAMBDA x : x # RequiredFieldIssue(raw_nodes[i]))

\* A validate call on a workflow with two nodes of different types whose
\* required fields are missing and that are not connected either.
C13_Witness ==
    /\ ValidateResults # { }
    /\ \E i, j \in MissingField :
         /\ raw_nodes[i].type # raw_nodes[j].type
         /\ i \in Orphans

\* ---- C14 ----

PreviewAnswered == pc = "done" /\ entry = "preview" /\ outcome.status = "200"

\* C18: POST /workflows/preview returns the deterministic step-document
\* with an empty issue list exactly when validate returns no issues, and
\* otherwise the validation issues and no document; the collaborator is
\* never contacted.
C18_PreviewReturnsDocumentOrIssues ==
    /\ entry = "preview" => collab_log = << >>
    /\ PreviewAnswered =>
         LET issues == validate_workflow(raw_nodes, raw_connections)
         IN  /\ outcome.has_result <=> issues = << >>
             /\ outcome.issues = issues
             /\ outcome.has_result =>
                  outcome.result.yaml_content = _generate_basic_workflow_yaml(raw_nodes)

\* A preview that returned a document with a step for a node other than
\* Start and End.
C18_Witness ==
    /\ PreviewAnswered
    /\ outcome.has_result
    /\ Len(outcome.result.yaml_content.main.steps) >= 2

\* ---- C19 ----

\* Exactly one Start node and one End node, joined by a connection.
StartEndJoined ==
    /\ Len(raw_nodes) = 2
    /\ { raw_nodes[1].type, raw_nodes[2].type } = { START, END }
    /\ \E c \in 1..Len(raw_connections) :
         { raw_connections[c].source_node_id, raw_connections[c].target_node_id }
             = NodeIds

\* C19: for a workflow of exactly one Start node and one End node joined by
\* a connection, validate returns zero issues.
C19_StartEndWorkflowIsValid ==
    StartEndJoined =>
        /\ ValidateResults \subseteq { << >> }
        /\ PreviewAnswered => outcome.issues = << >> /\ outcome.has_result

\* validate was called on such a workflow.
C19_Witness == StartEndJoined /\ ValidateResults # { }

\* ---- C15 ----

\* The name a node's files are filed under: the given name or, when absent,
\* the display name lower-cased with spaces replaced by underscores.
FiledUnder(node, given) ==
    IF given # None THEN given ELSE LowerUnderscore(node.name)

NodesOfType(type) == { i \in 1..Len(raw_nodes) : raw_nodes[i].type = type }

DeterministicResult ==
    GenerateEntry /\ ~ai_enhance /\ pc = "done" /\ outcome.has_result

\* C15: with enrichment disabled the keys of generated_files are exactly
\* the workflow-document key, functions/<name>/main.py and
\* functions/<name>/requirements.txt for each CloudFunction node, and
\* services/<name>/Dockerfile, services/<name>/main.py and
\* services/<name>/requirements.txt for each CloudRun node; a workflow
\* without such nodes yields exactly one entry.
C15_DeterministicFileKeys ==
    DeterministicResult =>
        /\ DOMAIN outcome.result.generated_files =
             { << "workflow.yaml" >> }
             \cup { << "functions",
                       FiledUnder(raw_nodes[i], raw_nodes[i].config.function_name),
                       file >>
                    : i \in NodesOfType(CLOUD_FUNCTION),
                      file \in { "main.py", "requirements.txt" } }
             \cup { << "services",
                       FiledUnder(raw_nodes[i], raw_nodes[i].config.service_name),
                       file >>
                    : i \in NodesOfType(CLOUD_RUN),
                      file \in { "Dockerfile", "main.py", "requirements.txt" } }
        /\ NodesOfType(CLOUD_FUNCTION) \cup NodesOfType(CLOUD_RUN) = { } =>
             Cardinality(DOMAIN outcome.result.generated_files) = 1

\* A deterministic result for a workflow with a CloudFunction node that has
\* no function name.
C15_Witness ==
    /\ DeterministicResult
    /\ \E i \in NodesOfType(CLOUD_FUNCTION) : raw_nodes[i].config.function_name = None
    /\ Cardinality(DOMAIN outcome.result.generated_files) = 3

\* ---- C17 ----

\* The suggestions the collaborator gave for the nodes of `answered`, in
\* node order.
PerNodeSuggestions(answered) ==
    Concat([ i \in 1..Len(raw_nodes) |->
               IF i \in answered
               THEN EnhancedConfig(raw_nodes[i], TRUE)["suggestions"]
               ELSE << >> ])

FirstTen(s) == SubSeq(s, 1, IF Len(s) < 10 THEN Len(s) ELSE 10)

DescriptorsOf(md) ==
    LET project == IF md.project_id = None THEN "your-project-id" ELSE md.project_id
        description == IF md.description = None THEN "Generated workflow"
                       ELSE md.description
    IN  [ k \in { << "cloudbuild.yaml" >>, << "terraform", "main.tf" >>,
                  << "deploy.sh" >> } |->
            [ origin |-> "template",
              producer |->
                  IF k = << "cloudbuild.yaml" >> THEN "_generate_cloudbuild_config"
                  ELSE IF k = << "deploy.sh" >> THEN "_generate_deployment_script"
                  ELSE "_generate_terraform_config",
              node |-> 0,
              text |->
                  IF k = << "cloudbuild.yaml" >>
                  THEN << md.region, md.region, md.name, md.region >>
                  ELSE IF k = << "deploy.sh" >>
                  THEN << md.name, project, md.region, md.name, md.name >>
                  ELSE << md.region, LowerHyphen(md.name), md.name, md.region,
                          description >> ] ]

\* C16: deployment_configs holds exactly the three descriptors when
\* include_deployment is true and is empty when it is false; their content
\* is determined by the workflow metadata alone, whether enrichment is on
\* or off, and the step that produces them makes no collaborator call.
C16_DeploymentDescriptorsFromMetadata ==
    /\ [](( GenerateEntry /\ pc = "done" /\ outcome.has_result ) =>
            outcome.result.deployment_configs =
                IF include_deployment THEN DescriptorsOf(metadata) ELSE EmptyDict)
    /\ [][ deployment_configs' # deployment_configs => collab_log' = collab_log ]_vars

\* An enriched result with deployment descriptors for metadata that sets
\* the optional fields.
C16_Witness ==
    /\ GenerateEntry /\ pc = "done" /\ outcome.has_result
    /\ include_deployment /\ ai_enhance
    /\ metadata.project_id # None
    /\ Cardinality(DOMAIN outcome.result.deployment_configs) = 3

\* ---- C20 ----

\* The nodes with every position put back to the origin.
AtOrigin(nodes) ==
    [ i \in 1..Len(nodes) |-> [ nodes[i] EXCEPT !.position = Origin ] ]

\* The files of one node in deterministic mode.
DeterministicNodeFiles(node) ==
    IF node.type = CLOUD_FUNCTION
    THEN _generate_function_files(node, FALSE, FALSE, [ ok |-> FALSE, text |-> << >> ]).value
    ELSE IF node.type = CLOUD_RUN
    THEN _generate_service_files(node, FALSE, FALSE, [ ok |-> FALSE, text |-> << >> ]).value
    ELSE EmptyDict

RECURSIVE MergeNodeFiles(_, _)
MergeNodeFiles(files, nodes) ==
    IF nodes = << >> THEN files
    ELSE MergeNodeFiles(Update(files, DeterministicNodeFiles(Head(nodes))), Tail(nodes))

\* generated_files of deterministic mode for a node list.
DeterministicFiles(nodes) ==
    MergeNodeFiles([ k \in { << "workflow.yaml" >> } |->
                       FileContent("compiler", "_generate_basic_workflow_yaml", 0,
                                   _generate_basic_workflow_yaml(nodes)) ],
                   nodes)

\* C20: the outputs for a workflow are those for the same workflow with
\* every node at the origin, so two workflows that differ only in the
\* position of their nodes get the same validation issues, the same
\* step-document and, in deterministic mode, the same generated_files and
\* deployment_configs.
\* (The workflow does not change during a request: the validator and the
\* compiler are compared on it once, when the request arrives.)
C20_PositionHasNoEffect ==
    LET still == AtOrigin(raw_nodes)
    IN  /\ pc = "request" =>
               /\ validate_workflow(raw_nodes, raw_connections) =
                      validate_workflow(still, raw_connections)
               /\ _generate_basic_workflow_yaml(raw_nodes) =
                      _generate_basic_workflow_yaml(still)
        /\ ( pc = "done" /\ outcome.status = "200" /\ entry = "validate" ) =>
               outcome.issues = validate_workflow(still, raw_connections)
        /\ DeterministicResult =>
               /\ outcome.result.generated_files = DeterministicFiles(still)
               /\ outcome.result.deployment_configs =
                      IF include_deployment THEN DescriptorsOf(metadata) ELSE EmptyDict

\* A deterministic result with deployment descriptors for a workflow with a
\* node away from the origin.
C20_Witness ==
    /\ DeterministicResult
    /\ include_deployment
    /\ \E i \in 1..Len(raw_nodes) : raw_nodes[i].position # Origin

\* ---- C26 ----

\* C26: the extraction applied to the whole-workflow response returns, for
\* every response, what the per-node extraction returns with the expected
\* hint yaml.
C26_YamlExtractionIsCodeExtraction ==
    /\ pc = "yaml_extracted" =>
         extracted = _extract_code_from_response(response, YamlHint)
    /\ pc = "extracted" => extracted = _extract_yaml_from_response(response)

\* The whole-workflow extraction took the interior of a block tagged yaml
\* that a later fence closes.
C26_Witness ==
    /\ pc = "yaml_extracted"
    /\ Contains(response, Fence \o YamlHint)
    /\ Find(response, Fence, Find(response, Fence \o YamlHint, 0) + 7) # -1
    /\ extracted # << >>

\* ---- C28 ----

\* Where the payload starts: after the first tagged fence if there is one,
\* else after the first fence.
PayloadStart(resp, lang) ==
    IF Contains(resp, Fence \o lang)
    THEN Find(resp, Fence \o lang, 0) + Len(Fence \o lang)
    ELSE Find(resp, Fence, 0) + 3

\* C28: for a response with an opening fence and no closing fence the
\* extraction returns all of the text after the opening fence, trimmed.
C28_UnclosedFenceKeepsPayload ==
    ( /\ pc = "extracted"
      /\ Contains(response, Fence)
      /\ Find(response, Fence, PayloadStart(response, language)) = -1 ) =>
        extracted = Strip(SubSeq(response, PayloadStart(response, language) + 1,
                                 Len(response)))

\* ---- C23 ----

\* The step-documents the direct calls of the compiler returned so far.
CompileResults ==
    { call_log[c].value : c \in { d \in 1..Len(call_log) :
                                    call_log[d].op = "_generate_basic_workflow_yaml" } }

NodeWithId(id) == raw_nodes[CHOOSE i \in 1..Len(raw_nodes) : raw_nodes[i].id = id]

\* The types that lower to the generic assign-marker step.
GenericTypes ==
    { CLOUD_RUN, PUBSUB_PUBLISH, PUBSUB_SUBSCRIBE, PARALLEL, ASSIGN, CALL, SWITCH,
      FOR_LOOP, TRY_CATCH }

\* The step of a node is the one its type calls for.
LoweredAsStated(node, step) ==
    CASE node.type = CLOUD_FUNCTION ->
           /\ DOMAIN step = { "call", "args", "result" }
           /\ step.call = "googleapis.cloudfunctions.v1.projects.locations.functions.call"
      [] node.type = HTTP_REQUEST ->
           /\ DOMAIN step = { "call", "args", "result" }
           /\ step.call = "http.request"
           /\ step.args.method =
                  (IF node.config.method = None THEN "GET" ELSE node.config.method)
           /\ step.args.headers =
                  (IF node.config.headers = NoneDict THEN << >> ELSE node.config.headers)
           /\ step.args.body =
                  (IF node.config.body = NoneDict THEN << >> ELSE node.config.body)
      [] node.type = CONDITION ->
           /\ DOMAIN step = { "switch", "next" }
           /\ step.switch[1].condition = node.config.condition
      [] node.type = DELAY ->
           /\ DOMAIN step = { "call", "args" }
           /\ step.call = "sys.sleep"
      [] node.type \in GenericTypes ->
           step = [ assign |-> << [ result |-> << "Processed", node.name >> ] >> ]
      [] OTHER -> step = [ return |-> "${result}" ]

\* C23: compile returns a step-document for every structurally valid
\* workflow over the 15 node types, with one step per node other than
\* Start: a remote-call step for CloudFunction, an HTTP-call step (method
\* GET, headers and body empty when unset) for HttpRequest, a guarded
\* branch for Condition, a sleep step for Delay and the assign-marker step
\* for every other type that is neither Start nor End.
C23_CompileIsTotalAndLowersByType ==
    /\ ( entry = "_generate_basic_workflow_yaml" /\ pc = "constructed" ) =>
           ENABLED CallCompile \/ Len(call_log) = MaxCalls
    /\ \A doc \in CompileResults :
         /\ Len(doc.main.steps) =
              Cardinality({ i \in 1..Len(raw_nodes) : raw_nodes[i].type # START })
         /\ \A k \in 1..Len(doc.main.steps) :
              LoweredAsStated(NodeWithId(doc.main.steps[k].node), doc.main.steps[k].step)

\* The submitted lists cover the 15 node types, and a workflow made of a
\* Start node, an HTTP request whose method, headers and body are unset
\* and an End node was compiled.
C23_Witness ==
    /\ { k.type : k \in CompiledKinds \cup { StartKind, EndKind } } = WorkflowNodeType
    /\ CompileResults # { }
    /\ Len(raw_nodes) = 3
    /\ raw_nodes[1].type = START
    /\ raw_nodes[2].type = HTTP_REQUEST
    /\ raw_nodes[2].config.method = None
    /\ raw_nodes[2].config.headers = NoneDict
    /\ raw_nodes[3].type = END

\* ---- C24 ----

\* C24: a Delay node lowers to a sleep step whose duration is the node's
\* configured delay for every specified value, 0 included, and 1 only
\* when the delay is unspecified.
C24_DelayKeepsConfiguredSeconds ==
    \A doc \in CompileResults :
        \A k \in 1..Len(doc.main.steps) :
            LET node == NodeWithId(doc.main.steps[k].node)
            IN  node.type = DELAY =>
                    doc.main.steps[k].step.args.seconds =
                        IF node.config.delay_seconds = NoneInt THEN 1
                        ELSE node.config.delay_seconds

\* ---- C29 ----

IsReturnStep(entry_) == entry_.step = [ return |-> "${result}" ]

\* C29: in the step-document compiled from a workflow that validates with
\* zero issues, every return step is the last element of the step list.
C29_ReturnStepIsLast ==
    ( PreviewAnswered /\ outcome.has_result ) =>
        LET steps == outcome.result.yaml_content.main.steps
        IN  \A k \in 1..Len(steps) : IsReturnStep(steps[k]) => k = Len(steps)

\* ---- C25 ----

\* The inputs/outputs lists of the nodes agree with the connections: every
\* connection is listed at both of its nodes, and every listed neighbour
\* has its connection.
InputsOutputsAgree ==
    /\ \A c \in 1..Len(raw_connections) :
         \A i \in 1..Len(raw_nodes) :
            /\ raw_nodes[i].id = raw_connections[c].source_node_id =>
                 raw_connections[c].target_node_id \in Range(raw_nodes[i].outputs)
            /\ raw_nodes[i].id = raw_connections[c].target_node_id =>
                 raw_connections[c].source_node_id \in Range(raw_nodes[i].inputs)
    /\ \A i \in 1..Len(raw_nodes) :
         /\ \A o \in Range(raw_nodes[i].outputs) :
              WorkflowConnection(raw_nodes[i].id, o) \in Range(raw_connections)
         /\ \A o \in Range(raw_nodes[i].inputs) :
              WorkflowConnection(o, raw_nodes[i].id) \in Range(raw_connections)

\* C25: a workflow whose inputs/outputs lists disagree with its connections
\* gets at least one issue from validate.
C25_DisagreeingInputsOutputsAreReported ==
    (<< >> \in ValidateResults) => InputsOutputsAgree

\* ---- C21 ----

\* C21: no step of validate, compile or generate changes the submitted
\* workflow: its nodes (ids, types, configs, inputs, outputs, their order),
\* its connections and its metadata are after every step what they were
\* before it, whether the operation returns or fails.
C21_WorkflowIsLeftUnchanged ==
    [][ /\ raw_nodes' = raw_nodes
        /\ raw_connections' = raw_connections
        /\ metadata' = metadata ]_vars

\* generate failed after it had compiled the workflow and written files.
C21_Witness ==
    /\ pc = "done"
    /\ entry = "generate"
    /\ outcome.status = "500"
    /\ generated_files # EmptyDict
    /\ raw_connections # << >>

\* ---- C27 ----

\* The keys of the files generation writes for one node.
FileKeysOf(node) ==
    IF node.type = CLOUD_FUNCTION
    THEN { << "functions", node.config.function_name, f >>
           : f \in { "main.py", "requirements.txt" } }
    ELSE IF node.type = CLOUD_RUN
    THEN { << "services", node.config.service_name, f >>
           : f \in { "Dockerfile", "main.py", "requirements.txt" } }
    ELSE { }

\* The files whose content is made for one node.
OwnFiles == { "main.py", "Dockerfile" }

\* C27: for a workflow that validates with no issue, the generated_files of
\* a returned result have exactly 1 + 2 * (number of Cloud Function nodes)
\* + 3 * (number of Cloud Run nodes) entries, and the files of every node
\* are among them with the content made for that node.
C27_EveryNodeKeepsItsFiles ==
    ( /\ pc = "done"
      /\ entry = "generate"
      /\ outcome.has_result
      /\ validate_workflow(raw_nodes, raw_connections) = << >> ) =>
        LET files == outcome.result.generated_files
        IN  /\ Cardinality(DOMAIN files) =
                   1 + 2 * Len(OfType(raw_nodes, CLOUD_FUNCTION))
                     + 3 * Len(OfType(raw_nodes, CLOUD_RUN))
            /\ \A i \in 1..Len(raw_nodes) :
                 \A k \in FileKeysOf(raw_nodes[i]) :
                    /\ k \in DOMAIN files
                    /\ k[3] \in OwnFiles => files[k].node = raw_nodes[i].id

\* ---- C30 ----

\* The path p lies inside the directory d.
Inside(p, d) ==
    /\ Len(p) > Len(d)
    /\ SubSeq(p, 1, Len(d)) = d

\* C30: when save has returned, the disk holds exactly one file per entry
\* of the map, and every file lies inside the output directory returned.
C30_SavedFilesStayInsideOutputPath ==
    (pc = "done" /\ entry = "save" /\ outcome.status = "200") =>
        /\ Cardinality(DOMAIN disk) = Len(save_files)
        /\ \A p \in DOMAIN disk : Inside(p, Resolve(outcome.output_path))

\* ---- C22 ----

RECURSIVE RunAlone(_, _)
\* The request run from its start to its end with nothing in between.
RunAlone(req, available) ==
    IF req.pc = "done" THEN req ELSE RunAlone(Advance(req, available), available)

\* The other request.
Other(r) == CHOOSE s \in RequestIds : s # r

\* Two file contents are the same: same producer, same node, same text.
SameContent(a, b) ==
    /\ a.origin = b.origin
    /\ a.producer = b.producer
    /\ a.node = b.node
    /\ a.text = b.text

\* Two file maps have the same entries.
SameFiles(f, g) ==
    /\ DOMAIN f = DOMAIN g
    /\ \A k \in DOMAIN f : SameContent(f[k], g[k])

\* Two requests ended the same way with the same results.
SameResult(a, b) ==
    /\ a.pc = b.pc
    /\ a.outcome.status = b.outcome.status
    /\ a.outcome.error = b.outcome.error
    /\ a.outcome.has_result = b.outcome.has_result
    /\ SameFiles(a.outcome.result.generated_files, b.outcome.result.generated_files)
    /\ a.outcome.result.deployment_configs = b.outcome.result.deployment_configs
    /\ a.outcome.result.ai_suggestions = b.outcome.result.ai_suggestions
    /\ SameFiles(a.generated_files, b.generated_files)
    /\ a.deployment_configs = b.deployment_configs
    /\ a.ai_suggestions = b.ai_suggestions

====
